---------------------------- MODULE Spec2Model ----------------------------
(***************************************************************************)
(* myconstituency-web: the Alberta vote extractor (scripts/ab-votes-latest)*)
(* and the representative lookup route (app/api/lookup/route.ts).          *)
(*                                                                         *)
(* Text is modelled after norm(): a sequence of whitespace-separated       *)
(* tokens.  The literal markers "For the motion" / "Against the motion"    *)
(* are single tokens; "(" and ")" are tokens of their own so that the      *)
(* regular expressions of the parser can be followed position by position. *)
(* Names and office titles of representatives are sequences of one-        *)
(* character strings, so that toLowerCase, includes and \b are computed.   *)
(***************************************************************************)
EXTENDS Integers, Sequences, FiniteSets, TLC

VARIABLES
  \* ---- vote script: extractVotesForMla(pdfText, mlaName, ridingMaybe)
  vPc,        \* "idle" | "start" | "done"
  vText,      \* norm(pdfText) as a token sequence
  vName,      \* mlaName as a sequence of words
  vRiding,    \* ridingMaybe: "" when absent
  vBlocks,    \* the matches m of reDivision, in the order exec() returns them
  vItems,     \* the returned items
  \* ---- vote script: extractLatestVpPdfUrl(html)
  lPc,        \* "idle" | "start" | "done"
  lHtml,      \* the href attributes of the index page, in page order
  lResult,    \* the returned URL, or Null
  \* ---- lookup route: dedupeByName and bucket on a list of representatives
  rPc,        \* "idle" | "start" | "deduped" | "done"
  rInput,     \* the list handed to dedupeByName
  rCombined,  \* its result
  rBuckets,   \* bucket(combined)
  \* ---- lookup route: the premier / prime-minister injection step
  jPc,        \* "idle" | "run"
  jBuckets,   \* the buckets the injection pushes to
  jPremier,   \* the premier found by fetchPremier, or Null
  jPrimeMinister, \* the prime minister found by fetchPrimeMinister, or Null
  jRuns,      \* how often the injection step has run on these buckets
  \* ---- lookup route: one GET request
  pc,         \* where the handler is (its await points), "responded" or "threw"
  rawPostal,  \* the postal query parameter ("" when missing)
  postal,     \* normalizePostal(rawPostal)
  primary,    \* the response of the postcodes endpoint, or Null
  geo,        \* the result of geocodePostalCanada, or Null
  reps,       \* the result of fetchRepsByPoint, or Null
  buckets,    \* the municipal / provincial / federal buckets
  premierTask,       \* fetchPremier of the Promise.all batch
  primeMinisterTask, \* fetchPrimeMinister of the Promise.all batch
  response,   \* the NextResponse returned, or Null
  calls,      \* the upstream endpoints fetched so far, in order
  \* ---- vote request: the vote route GET and the script's main
  tPc,        \* where the request is: route, script, "responded" or "exited"
  tEntry,     \* "route" (GET /api/provincial-votes) or "script" (run by hand)
  tName,      \* the name query parameter ("" when missing)
  tRiding,    \* the riding query parameter ("" when missing)
  tDebug,     \* the request has debug=1
  tArgs,      \* process.argv after the script path
  tIndex,     \* the response of the index page fetch, or Null
  tPdfUrl,    \* the URL extractLatestVpPdfUrl returned, or Null
  tPdf,       \* the response of the PDF fetch, or Null
  tOut,       \* what the script printed on stdout, or Null
  tResponse,  \* the NextResponse of the vote route, or Null
  tCalls,     \* spawn, fetches and the PDF text extraction, in order
  \* ---- lib/postal.ts: the postal validator on one input
  zPc,        \* "idle" | "start" | "done"
  zRaw,       \* the string as typed
  zPostal,    \* normalizePostal(zRaw)
  zValid,     \* isLikelyCanadianPostal(zPostal)
  \* ---- fetchAllRepresentatives: the pagination loop
  fPc,        \* "idle" | "loop" | "awaitPage" | "done" | "threw"
  fNextUrl,   \* nextUrl, or Null
  fGuard,     \* guard
  fAll,       \* all.length
  fFetches,   \* page fetches issued so far
  fInFlight,  \* page fetches issued and not yet settled
  fLast,      \* how the last page fetch ended, "none" before the first
  \* ---- vote script: norm and normLower on one value
  nPc,        \* "idle" | "start" | "done"
  nInput,     \* the argument: a JavaScript value
  nOut,       \* norm(nInput)
  nLower,     \* normLower(nInput)
  \* ---- lookup route with hardcoded records: the tail of GET
  oPc,        \* "idle" | "start" | "batch" | "done" | "threw"
  oPath,      \* "direct" | "fallback"
  oPostal,    \* the normalised postal code
  oProvince,  \* provinceCode, "" for undefined
  oReps,      \* the upstream records to classify
  oBuckets,   \* buckets
  oLog,       \* what was done to the buckets, in order
  oResponse,  \* the response, or Null
  \* ---- vote parser: the passed heuristic of one division
  wPc,        \* "idle" | "start" | "done"
  wText,      \* norm(pdfText), a string
  wStart,     \* m.index + 1: where the division starts
  wPassed,    \* "true" | "false" | "null"
  \* ---- premier and prime minister matchers on one roster
  kPc,        \* "idle" | "start" | "premier" | "done"
  kRoster,    \* json.objects of the roster response
  kPremier,   \* what fetchPremier returned
  kPrimeMinister,\* what fetchPrimeMinister returned
  \* ---- geocode fallback: one answer of the geocoder
  gPc,        \* "idle" | "start" | "geocoded" | "notFound" | "awaitPoint"
  gAnswer,    \* the geocoder's response: [ok, status, first]
  gGeo,       \* what geocodePostalCanada returned, or Null
  gPoint,     \* the point lookup was issued
  \* ---- the Issues panel of the page
  iTab,       \* tab: "city" | "provincial" | "federal" ("" when idle)
  iLoading,   \* loading
  iItems,     \* items: the source they were returned for, "" for []
  iError,     \* error is set
  iPending,   \* the requests of load still awaited, per source
  iClicks     \* tab clicks so far

votesVars == <<vPc, vText, vName, vRiding, vBlocks, vItems>>
locVars   == <<lPc, lHtml, lResult>>
recVars   == <<rPc, rInput, rCombined, rBuckets>>
injVars   == <<jPc, jBuckets, jPremier, jPrimeMinister, jRuns>>
reqVars   == <<pc, rawPostal, postal, primary, geo, reps, buckets,
               premierTask, primeMinisterTask, response, calls>>
pipeVars  == <<tPc, tEntry, tName, tRiding, tDebug, tArgs, tIndex, tPdfUrl, tPdf, tOut, tResponse, tCalls>>
postVars  == <<zPc, zRaw, zPostal, zValid>>
pageVars  == <<fPc, fNextUrl, fGuard, fAll, fFetches, fInFlight, fLast>>
normVars  == <<nPc, nInput, nOut, nLower>>
overVars  == <<oPc, oPath, oPostal, oProvince, oReps, oBuckets, oLog, oResponse>>
cueVars   == <<wPc, wText, wStart, wPassed>>
roleVars  == <<kPc, kRoster, kPremier, kPrimeMinister>>
geoVars   == <<gPc, gAnswer, gGeo, gPoint>>
issueVars == <<iTab, iLoading, iItems, iError, iPending, iClicks>>
moreVars  == <<pipeVars, postVars, pageVars, normVars, overVars, cueVars, roleVars, geoVars, issueVars>>
vars      == <<votesVars, locVars, recVars, injVars, reqVars, moreVars>>

\* null / undefined: a record with no field of a URL or a representative.
Null == [null |-> TRUE]

\* The parts of the state a specification does not use stay as they are here.
NoBuckets == [municipal |-> <<>>, provincial |-> <<>>, federal |-> <<>>]
VotesIdle ==
  /\ vPc = "idle" /\ vText = <<>> /\ vName = <<>> /\ vRiding = ""
  /\ vBlocks = <<>> /\ vItems = <<>>
LocIdle == lPc = "idle" /\ lHtml = <<>> /\ lResult = Null
RecIdle == rPc = "idle" /\ rInput = <<>> /\ rCombined = <<>> /\ rBuckets = NoBuckets
InjIdle ==
  /\ jPc = "idle" /\ jBuckets = NoBuckets /\ jPremier = Null
  /\ jPrimeMinister = Null /\ jRuns = 0
ReqIdle ==
  /\ pc = "idle" /\ rawPostal = "" /\ postal = "" /\ primary = Null
  /\ geo = Null /\ reps = Null /\ buckets = NoBuckets
  /\ premierTask = Null /\ primeMinisterTask = Null
  /\ response = Null /\ calls = <<>>

PipeIdle ==
  /\ tPc = "idle" /\ tEntry = "" /\ tName = "" /\ tRiding = "" /\ tDebug = FALSE /\ tArgs = <<>>
  /\ tIndex = Null /\ tPdfUrl = Null /\ tPdf = Null /\ tOut = Null /\ tResponse = Null /\ tCalls = <<>>
PostIdle ==
  /\ zPc = "idle" /\ zRaw = "" /\ zPostal = "" /\ zValid = FALSE
PageIdle ==
  /\ fPc = "idle" /\ fNextUrl = Null /\ fGuard = 0 /\ fAll = 0
  /\ fFetches = 0 /\ fInFlight = 0 /\ fLast = "none"
NormIdle ==
  /\ nPc = "idle" /\ nInput = Null /\ nOut = "" /\ nLower = ""
OverIdle ==
  /\ oPc = "idle" /\ oPath = "" /\ oPostal = "" /\ oProvince = ""
  /\ oReps = <<>> /\ oBuckets = NoBuckets /\ oLog = <<>> /\ oResponse = Null
CueIdle ==
  /\ wPc = "idle" /\ wText = "" /\ wStart = 0 /\ wPassed = "null"
RoleIdle ==
  /\ kPc = "idle" /\ kRoster = <<>> /\ kPremier = Null /\ kPrimeMinister = Null
GeoIdle ==
  /\ gPc = "idle" /\ gAnswer = Null /\ gGeo = Null /\ gPoint = FALSE
IssuesIdle ==
  /\ iTab = "" /\ iLoading = FALSE /\ iItems = "" /\ iError = FALSE
  /\ iPending = <<>> /\ iClicks = 0
MoreIdle == PipeIdle /\ PostIdle /\ PageIdle /\ NormIdle /\ OverIdle /\ CueIdle /\ RoleIdle /\ GeoIdle /\ IssuesIdle
notPipe == <<votesVars, locVars, recVars, injVars, reqVars, postVars, pageVars, normVars, overVars, cueVars, roleVars, geoVars, issueVars>>
NotPipeIdle ==
  /\ VotesIdle /\ LocIdle /\ RecIdle /\ InjIdle /\ ReqIdle
  /\ PostIdle /\ PageIdle /\ NormIdle /\ OverIdle /\ CueIdle /\ RoleIdle /\ GeoIdle /\ IssuesIdle
notPost == <<votesVars, locVars, recVars, injVars, reqVars, pipeVars, pageVars, normVars, overVars, cueVars, roleVars, geoVars, issueVars>>
NotPostIdle ==
  /\ VotesIdle /\ LocIdle /\ RecIdle /\ InjIdle /\ ReqIdle
  /\ PipeIdle /\ PageIdle /\ NormIdle /\ OverIdle /\ CueIdle /\ RoleIdle /\ GeoIdle /\ IssuesIdle
notPage == <<votesVars, locVars, recVars, injVars, reqVars, pipeVars, postVars, normVars, overVars, cueVars, roleVars, geoVars, issueVars>>
NotPageIdle ==
  /\ VotesIdle /\ LocIdle /\ RecIdle /\ InjIdle /\ ReqIdle
  /\ PipeIdle /\ PostIdle /\ NormIdle /\ OverIdle /\ CueIdle /\ RoleIdle /\ GeoIdle /\ IssuesIdle
notNorm == <<votesVars, locVars, recVars, injVars, reqVars, pipeVars, postVars, pageVars, overVars, cueVars, roleVars, geoVars, issueVars>>
NotNormIdle ==
  /\ VotesIdle /\ LocIdle /\ RecIdle /\ InjIdle /\ ReqIdle
  /\ PipeIdle /\ PostIdle /\ PageIdle /\ OverIdle /\ CueIdle /\ RoleIdle /\ GeoIdle /\ IssuesIdle
notOver == <<votesVars, locVars, recVars, injVars, reqVars, pipeVars, postVars, pageVars, normVars, cueVars, roleVars, geoVars, issueVars>>
NotOverIdle ==
  /\ VotesIdle /\ LocIdle /\ RecIdle /\ InjIdle /\ ReqIdle
  /\ PipeIdle /\ PostIdle /\ PageIdle /\ NormIdle /\ CueIdle /\ RoleIdle /\ GeoIdle /\ IssuesIdle
notCue == <<votesVars, locVars, recVars, injVars, reqVars, pipeVars, postVars, pageVars, normVars, overVars, roleVars, geoVars, issueVars>>
NotCueIdle ==
  /\ VotesIdle /\ LocIdle /\ RecIdle /\ InjIdle /\ ReqIdle
  /\ PipeIdle /\ PostIdle /\ PageIdle /\ NormIdle /\ OverIdle /\ RoleIdle /\ GeoIdle /\ IssuesIdle
notRole == <<votesVars, locVars, recVars, injVars, reqVars, pipeVars, postVars, pageVars, normVars, overVars, cueVars, geoVars, issueVars>>
NotRoleIdle ==
  /\ VotesIdle /\ LocIdle /\ RecIdle /\ InjIdle /\ ReqIdle
  /\ PipeIdle /\ PostIdle /\ PageIdle /\ NormIdle /\ OverIdle /\ CueIdle /\ GeoIdle /\ IssuesIdle
notGeo == <<votesVars, locVars, recVars, injVars, reqVars, pipeVars, postVars, pageVars, normVars, overVars, cueVars, roleVars, issueVars>>
NotGeoIdle ==
  /\ VotesIdle /\ LocIdle /\ RecIdle /\ InjIdle /\ ReqIdle
  /\ PipeIdle /\ PostIdle /\ PageIdle /\ NormIdle /\ OverIdle /\ CueIdle /\ RoleIdle /\ IssuesIdle
notIssues == <<votesVars, locVars, recVars, injVars, reqVars, pipeVars, postVars, pageVars, normVars, overVars, cueVars, roleVars, geoVars>>
NotIssuesIdle ==
  /\ VotesIdle /\ LocIdle /\ RecIdle /\ InjIdle /\ ReqIdle
  /\ PipeIdle /\ PostIdle /\ PageIdle /\ NormIdle /\ OverIdle /\ CueIdle /\ RoleIdle /\ GeoIdle

(***************************************************************************)
(* Bounds of the model.                                                    *)
(***************************************************************************)
MaxEntries == 5     \* markers and member entries in a document
MaxLinks   == 3     \* href attributes on the index page
MaxDate    == 2     \* distinct filename dates 1..MaxDate
MaxReps    == 3     \* representatives in one upstream list
MaxRuns    == 3     \* runs of the injection step on the same buckets
MaxObjects == 2     \* representatives in one response of the lookup services
MaxRoster  == 2     \* members in one roster response
MaxIndexLinks == 2  \* href attributes on the index page of a vote request
MaxNormLen == 5     \* characters of a string handed to norm
MaxClicks == 3      \* tab clicks on the Issues panel

\* All sequences over S of length 0..n.
SeqsUpTo(S, n) == UNION {[1..k -> S] : k \in 0..n}

RECURSIVE Flatten(_)
Flatten(ss) == IF ss = <<>> THEN <<>> ELSE Head(ss) \o Flatten(Tail(ss))

\* Least index i >= from with s[i] = tok, 0 when there is none.
FindFrom(s, tok, from) ==
  LET hits == {i \in from..Len(s) : s[i] = tok}
  IN IF hits = {} THEN 0 ELSE CHOOSE i \in hits : \A j \in hits : i <= j

(***************************************************************************)
(* Vote Block Parser                                                       *)
(***************************************************************************)
ForMarker     == "For the motion:"
AgainstMarker == "Against the motion:"

\* lastNameOf: the last space-separated part of norm(fullName); "" for "".
lastNameOf(fullName) ==
  IF Len(fullName) = 0 THEN "" ELSE fullName[Len(fullName)]

\* reName.test(segment): bare surname without a riding; with a riding,
\*   \bLAST\b\s*\(.*?RIDING.*?\)
\* the surname, "(", then lazily anything up to the riding, then lazily
\* anything up to a ")".
reNameTest(seg, last, riding) ==
  IF riding = ""
  THEN \E i \in 1..Len(seg) : seg[i] = last
  ELSE \E i \in 1..Len(seg) :
         /\ seg[i] = last
         /\ i + 1 <= Len(seg) /\ seg[i + 1] = "("
         /\ \E j \in (i + 2)..Len(seg) :
              /\ seg[j] = riding
              /\ \E k \in (j + 1)..Len(seg) : seg[k] = ")"

\* reDivision.exec in a loop:
\*   For the motion:?\s*(.*?)\s*Against the motion:?\s*(.*?)(?=(?:For the motion:?)|$)
\* A match starts at the first "For the motion" at or after lastIndex, its
\* first group runs lazily to the first "Against the motion" after that
\* start, its second group lazily to the next "For the motion" or the end.
RECURSIVE reDivisionFrom(_, _)
reDivisionFrom(text, lastIndex) ==
  LET f == FindFrom(text, ForMarker, lastIndex)
      a == IF f = 0 THEN 0 ELSE FindFrom(text, AgainstMarker, f + 1)
      n == IF a = 0 THEN 0 ELSE FindFrom(text, ForMarker, a + 1)
      e == IF n = 0 THEN Len(text) + 1 ELSE n
  IN IF f = 0 \/ a = 0 THEN <<>>
     ELSE << [index       |-> f,
              forFrom     |-> f + 1, forTo     |-> a - 1,
              againstFrom |-> a + 1, againstTo |-> e - 1,
              end         |-> e] >>
          \o reDivisionFrom(text, e)

reDivisionAll(text) == reDivisionFrom(text, 1)

forBlock(text, m)     == SubSeq(text, m.forFrom, m.forTo)
againstBlock(text, m) == SubSeq(text, m.againstFrom, m.againstTo)

\* The vote of one division: "Yes", "No" or "Unknown".
classifyBuggyBoth(votedYes, votedNo) ==
  IF votedYes THEN "Yes" ELSE IF votedNo THEN "No" ELSE "Unknown"

classify(votedYes, votedNo) ==
  IF votedNo /\ ~votedYes THEN "No"
  ELSE IF votedYes /\ ~votedNo THEN "Yes"
  ELSE "Unknown"

RECURSIVE votesOfBlocks(_, _, _, _)
votesOfBlocks(text, ms, last, riding) ==
  IF ms = <<>> THEN <<>>
  ELSE LET m        == Head(ms)
           votedYes == reNameTest(forBlock(text, m), last, riding)
           votedNo  == reNameTest(againstBlock(text, m), last, riding)
           vote     == classify(votedYes, votedNo)
           rest     == votesOfBlocks(text, Tail(ms), last, riding)
       IN IF vote = "Unknown" THEN rest
          ELSE <<[at |-> m.index, vote |-> vote]>> \o rest

extractVotesForMla(text, mlaName, ridingMaybe) ==
  LET targetLast == lastNameOf(mlaName)
  IN IF targetLast = "" THEN <<>>
     ELSE votesOfBlocks(text, reDivisionAll(text), targetLast, ridingMaybe)

\* ---- inputs of the vote parser
Surnames == {"smith", "jones"}
Ridings  == {"calgary-centre", "edmonton-west"}
\* A member entry: bare surname, or surname with a parenthetical riding.
MemberEntries ==
  {<<s>> : s \in Surnames} \cup
  {<<"smith", "(", r, ")">> : r \in Ridings} \cup
  {<<"jones", "(", "calgary-centre", ")">>}
Entries == {<<ForMarker>>, <<AgainstMarker>>} \cup MemberEntries
Documents == {Flatten(es) : es \in SeqsUpTo(Entries, MaxEntries)}
TargetNames == {<<>>, <<"jane", "smith">>, <<"taylor">>}
TargetRidings == {""} \cup Ridings

InitVotes ==
  /\ vPc = "start"
  /\ vText \in Documents
  /\ vName \in TargetNames
  /\ vRiding \in TargetRidings
  /\ vBlocks = <<>> /\ vItems = <<>>
  /\ LocIdle /\ RecIdle /\ InjIdle /\ ReqIdle /\ MoreIdle

ExtractVotes ==
  /\ vPc = "start"
  /\ vBlocks' = reDivisionAll(vText)
  /\ vItems' = extractVotesForMla(vText, vName, vRiding)
  /\ vPc' = "done"
  /\ UNCHANGED <<vText, vName, vRiding, locVars, recVars, injVars, reqVars, moreVars>>

NextVotes == ExtractVotes
SpecVotes == InitVotes /\ [][NextVotes]_vars


(***************************************************************************)
(* PDF Locator                                                             *)
(*                                                                         *)
(* An href attribute of the index page is a record                         *)
(*   ext   "pdf" when /href\s*=\s*["']([^"' ]+\.pdf)["']/ captures it      *)
(*   form  "http" (absolute) or "/" (root-relative)                        *)
(*   host  the host written in an absolute href, "" otherwise              *)
(*   mark  the VP marker of the path: "/vp/", "_vp" or ""                  *)
(*   date  d > 0 for a filename <d as YYYYMMDD>_####_##_vp.pdf, else 0     *)
(* and a URL is the same record with its host resolved.                    *)
(***************************************************************************)
DocsHost == "docs.assembly.ab.ca"
SiteHost == "www.assembly.ab.ca"

\* html.matchAll(...).map(m => m[1]): the captured .pdf hrefs, in page order.
pdfHrefs(html) == SelectSeq(html, LAMBDA h : h.ext = "pdf")

\* toAbs: an absolute href is kept, any other is put under www.assembly.ab.ca.
toAbs(href) ==
  IF href.form = "http" THEN href
  ELSE [href EXCEPT !.form = "http", !.host = SiteHost]

\* The VP filter: the records host and one of the path markers.
isVp(u) == u.host = DocsHost /\ u.mark \in {"/vp/", "_vp"}

vpLinks(html) ==
  LET hrefs == pdfHrefs(html)
      abs   == [i \in 1..Len(hrefs) |-> toAbs(hrefs[i])]
  IN SelectSeq(abs, isVp)

\* u.match(/(\d{8})_\d{4}_\d{2}_vp\.pdf/i): Number(m[1]), or 0 without a match.
dateOf(u) == IF u.mark = "_vp" THEN u.date ELSE 0

\* Array.prototype.sort((a, b) => b.date - a.date): stable, descending.
RECURSIVE insertDesc(_, _)
insertDesc(sorted, x) ==
  IF sorted = <<>> THEN <<x>>
  ELSE IF dateOf(Head(sorted)) >= dateOf(x)
       THEN <<Head(sorted)>> \o insertDesc(Tail(sorted), x)
       ELSE <<x>> \o sorted

RECURSIVE insertAsc(_, _)
insertAsc(sorted, x) ==
  IF sorted = <<>> THEN <<x>>
  ELSE IF dateOf(Head(sorted)) <= dateOf(x)
       THEN <<Head(sorted)>> \o insertAsc(Tail(sorted), x)
       ELSE <<x>> \o sorted

RECURSIVE insertDescTiesFirst(_, _)
insertDescTiesFirst(sorted, x) ==
  IF sorted = <<>> THEN <<x>>
  ELSE IF dateOf(Head(sorted)) > dateOf(x)
       THEN <<Head(sorted)>> \o insertDescTiesFirst(Tail(sorted), x)
       ELSE <<x>> \o sorted

Front(s) == SubSeq(s, 1, Len(s) - 1)
Last(s)  == s[Len(s)]

\* Mutants of the sort: ascending order; equal dates reversed.
RECURSIVE sortByDateAsc(_)
sortByDateAsc(us) ==
  IF us = <<>> THEN <<>> ELSE insertAsc(sortByDateAsc(Front(us)), Last(us))

RECURSIVE sortByDateUnstable(_)
sortByDateUnstable(us) ==
  IF us = <<>> THEN <<>>
  ELSE insertDescTiesFirst(sortByDateUnstable(Front(us)), Last(us))

\* The elements are inserted in their original order, each after every
\* element that does not sort behind it: equal dates keep their order.
RECURSIVE sortByDateDesc(_)
sortByDateDesc(us) ==
  IF us = <<>> THEN <<>> ELSE insertDesc(sortByDateDesc(Front(us)), Last(us))

\* return withDate[0]?.u || vp[0] || null
extractLatestVpPdfUrl(html) ==
  LET vp       == vpLinks(html)
      withDate == sortByDateDesc(vp)
  IN IF withDate # <<>> THEN withDate[1]
     ELSE IF vp # <<>> THEN vp[1]
     ELSE Null

\* ---- inputs of the locator
Hrefs ==
  {[ext |-> "html", form |-> "/", host |-> "", mark |-> "", date |-> 0]} \cup
  {[ext |-> "pdf", form |-> "http", host |-> DocsHost, mark |-> "_vp", date |-> d] :
     d \in 0..MaxDate} \cup
  {[ext |-> "pdf", form |-> fh[1], host |-> fh[2], mark |-> mk, date |-> 0] :
     fh \in {<<"http", DocsHost>>, <<"/", "">>}, mk \in {"", "/vp/"}} \cup
  {[ext |-> "pdf", form |-> "/", host |-> "", mark |-> "_vp", date |-> d] :
     d \in {0, MaxDate}}

InitLocator ==
  /\ lPc = "start"
  /\ lHtml \in SeqsUpTo(Hrefs, MaxLinks)
  /\ lResult = Null
  /\ VotesIdle /\ RecIdle /\ InjIdle /\ ReqIdle /\ MoreIdle

LocateLatest ==
  /\ lPc = "start"
  /\ lResult' = extractLatestVpPdfUrl(lHtml)
  /\ lPc' = "done"
  /\ UNCHANGED <<lHtml, votesVars, recVars, injVars, reqVars, moreVars>>

NextLocator == LocateLatest
SpecLocator == InitLocator /\ [][NextLocator]_vars

(***************************************************************************)
(* Claims about the PDF Locator (SpecLocator)                              *)
(***************************************************************************)
VpSet(html) == {vpLinks(html)[i] : i \in 1..Len(vpLinks(html))}
MaxVpDate(html) ==
  CHOOSE d \in 0..MaxDate :
    /\ \A u \in VpSet(html) : dateOf(u) <= d
    /\ d = 0 \/ \E u \in VpSet(html) : dateOf(u) = d
Reorderings(html) ==
  {[i \in 1..Len(html) |-> html[p[i]]] : p \in Permutations(1..Len(html))}

\* C4: when some VP-filtered link carries a filename date, the returned link
\* carries the greatest date among the VP-filtered links, whatever the order
\* of the links on the page; a dated link wins over an undated one.
C4_LatestDateWins ==
  (lPc = "done" /\ \E u \in VpSet(lHtml) : dateOf(u) > 0) =>
    /\ lResult # Null
    /\ lResult \in VpSet(lHtml)
    /\ dateOf(lResult) = MaxVpDate(lHtml)
    /\ dateOf(lResult) > 0
    /\ \A h \in Reorderings(lHtml) :
         dateOf(extractLatestVpPdfUrl(h)) = dateOf(lResult)

\* C4 witness: an undated VP link comes first, an older dated one second and
\* the latest one last, and the latest one was returned.
C4_Witness ==
  /\ lPc = "done"
  /\ Len(vpLinks(lHtml)) = 3
  /\ dateOf(vpLinks(lHtml)[1]) = 0
  /\ dateOf(vpLinks(lHtml)[2]) = 1
  /\ dateOf(vpLinks(lHtml)[3]) = 2
  /\ lResult = vpLinks(lHtml)[3]

\* C5: the locator returns null exactly when no link passes the VP filter;
\* otherwise it returns one of the VP-filtered links, and when none of them
\* has a filename date it returns the first of them in page order.
C5_NullIffNoVpLink ==
  lPc = "done" =>
    /\ lResult = Null <=> vpLinks(lHtml) = <<>>
    /\ lResult # Null => lResult \in VpSet(lHtml)
    /\ (vpLinks(lHtml) # <<>> /\ \A u \in VpSet(lHtml) : dateOf(u) = 0) =>
         lResult = vpLinks(lHtml)[1]

\* C5 witness: two different undated VP links after a .pdf link that fails
\* the filter; the first VP link was returned.
C5_Witness ==
  /\ lPc = "done"
  /\ Len(pdfHrefs(lHtml)) = 3
  /\ Len(vpLinks(lHtml)) = 2
  /\ vpLinks(lHtml)[1] # vpLinks(lHtml)[2]
  /\ \A u \in VpSet(lHtml) : dateOf(u) = 0
  /\ lResult = vpLinks(lHtml)[1]

\* The locator answers null for a page whose only .pdf links lack the markers.
C5_WitnessNull ==
  /\ lPc = "done"
  /\ Len(pdfHrefs(lHtml)) = 2
  /\ lResult = Null

(***************************************************************************)
(* Claims about the Vote Block Parser (SpecVotes)                          *)
(***************************************************************************)
BlockSet == {vBlocks[i] : i \in 1..Len(vBlocks)}
ItemSet  == {vItems[i] : i \in 1..Len(vItems)}
MatchesFor(m)     == reNameTest(forBlock(vText, m), lastNameOf(vName), vRiding)
MatchesAgainst(m) == reNameTest(againstBlock(vText, m), lastNameOf(vName), vRiding)
NameAbsent ==
  \/ lastNameOf(vName) = ""
  \/ \A i \in 1..Len(vText) : vText[i] # lastNameOf(vName)

\* C1: a division block yields a record iff the name pattern matches in
\* exactly one of its two segments; the record says "Yes" when only the
\* for-segment matches and "No" when only the against-segment matches; no
\* record says "Unknown"; an absent name yields the empty list.
C1_RecordIffExactlyOneSegment ==
  vPc = "done" =>
    /\ \A it \in ItemSet : it.vote \in {"Yes", "No"}
    /\ \A i, j \in 1..Len(vItems) : vItems[i].at = vItems[j].at => i = j
    /\ \A it \in ItemSet : \E m \in BlockSet :
         /\ m.index = it.at
         /\ it.vote = "Yes" <=> (MatchesFor(m) /\ ~MatchesAgainst(m))
         /\ it.vote = "No" <=> (MatchesAgainst(m) /\ ~MatchesFor(m))
    /\ lastNameOf(vName) # "" =>
         \A m \in BlockSet :
           (MatchesFor(m) # MatchesAgainst(m)) <=> (\E it \in ItemSet : it.at = m.index)
    /\ NameAbsent => vItems = <<>>

\* C1 witness: two divisions were found, one gave a "No" record and the
\* other (matched in neither or in both segments) gave none.
C1_Witness ==
  /\ vPc = "done"
  /\ Len(vBlocks) = 2
  /\ Len(vItems) = 1
  /\ vItems[1].vote = "No"

\* The surname at position i of seg opens a parenthetical clause that itself
\* (before its closing parenthesis) contains the riding.
InOwnClause(seg, last, riding) ==
  \E i \in 1..Len(seg) :
    /\ seg[i] = last
    /\ i + 1 <= Len(seg) /\ seg[i + 1] = "("
    /\ LET c == FindFrom(seg, ")", i + 2)
       IN c # 0 /\ \E j \in (i + 2)..(c - 1) : seg[j] = riding

\* C2: with a riding supplied, a segment counts as a match only if an
\* occurrence of the surname is immediately followed by a parenthetical
\* clause that itself contains the riding; the riding in another member's
\* parenthetical later in the segment is not a match.
C2_RidingInOwnParenthetical ==
  (vPc = "done" /\ vRiding # "") =>
    \A it \in ItemSet : \E m \in BlockSet :
      /\ m.index = it.at
      /\ it.vote = "Yes" => InOwnClause(forBlock(vText, m), lastNameOf(vName), vRiding)
      /\ it.vote = "No" => InOwnClause(againstBlock(vText, m), lastNameOf(vName), vRiding)

\* C3: no segment of a division block contains a later "For the motion"
\* marker, the two segments of a block are disjoint, and distinct blocks do
\* not overlap.
C3_BlocksDelimitedByNextMarker ==
  vPc = "done" =>
    /\ \A m \in BlockSet :
         /\ \A i \in m.forFrom..m.forTo : vText[i] # ForMarker
         /\ \A i \in m.againstFrom..m.againstTo : vText[i] # ForMarker
         /\ m.forTo < m.againstFrom
    /\ \A i \in 1..(Len(vBlocks) - 1) : vBlocks[i].end <= vBlocks[i + 1].index


(***************************************************************************)
(* Strings of the lookup route: names, office titles                       *)
(***************************************************************************)
UpperLetters == "ABCDEFGHIJKLMNOPQRSTUVWXYZ"
LowerLetters == "abcdefghijklmnopqrstuvwxyz"
Digits       == "0123456789"

CharAt(s, i) == SubSeq(s, i, i)
Chars(s) == {CharAt(s, i) : i \in 1..Len(s)}

\* The lower-case letter of each upper-case letter.
LowerOf ==
  [c \in Chars(UpperLetters) |->
     CharAt(LowerLetters, CHOOSE i \in 1..26 : CharAt(UpperLetters, i) = c)]

toLowerChar(c) == IF c \in DOMAIN LowerOf THEN LowerOf[c] ELSE c

\* String.prototype.toLowerCase
RECURSIVE toLowerCase(_)
toLowerCase(s) ==
  IF s = "" THEN "" ELSE toLowerChar(Head(s)) \o toLowerCase(Tail(s))

\* String.prototype.includes, for a non-empty w
includes(s, w) ==
  \E i \in 1..(Len(s) - Len(w) + 1) : SubSeq(s, i, i + Len(w) - 1) = w

\* \w of a regular expression
WordChars == Chars(UpperLetters) \cup Chars(LowerLetters) \cup Chars(Digits) \cup {"_"}
isWordChar(c) == c \in WordChars

\* /\bw\b/.test(s) for a word w of letters: an occurrence of w with no word
\* character right before it and none right after it.
testWord(s, w) ==
  \E i \in 1..(Len(s) - Len(w) + 1) :
    /\ SubSeq(s, i, i + Len(w) - 1) = w
    /\ i = 1 \/ ~isWordChar(CharAt(s, i - 1))
    /\ i + Len(w) > Len(s) \/ ~isWordChar(CharAt(s, i + Len(w)))

(***************************************************************************)
(* Representative Reconciler: bucket and dedupeByName                      *)
(*                                                                         *)
(* A representative is a record [name, elected_office, district_name].     *)
(***************************************************************************)
office(r) == toLowerCase(r.elected_office)

isMunicipal(r) ==
  includes(office(r), "mayor") \/ includes(office(r), "councillor")
    \/ includes(office(r), "alderman")
isProvincial(r) ==
  testWord(office(r), "mla") \/ testWord(office(r), "mpp")
    \/ testWord(office(r), "mna")
isFederal(r) == testWord(office(r), "mp")

\* Mutant of bucket: the substring classifiers of an older variant of the
\* route, where "mpp" contains "mp".
bucketBySubstring(rs) ==
  [municipal  |-> SelectSeq(rs, isMunicipal),
   provincial |-> SelectSeq(rs, LAMBDA r : includes(office(r), "mla")
                     \/ includes(office(r), "mpp") \/ includes(office(r), "mna")),
   federal    |-> SelectSeq(rs, LAMBDA r : includes(office(r), "mp"))]

bucket(rs) ==
  [municipal  |-> SelectSeq(rs, isMunicipal),
   provincial |-> SelectSeq(rs, isProvincial),
   federal    |-> SelectSeq(rs, isFederal)]

\* key = (r.name || "").toLowerCase() + "|" + (r.elected_office || "").toLowerCase()
repKey(r) == toLowerCase(r.name) \o "|" \o toLowerCase(r.elected_office)

RECURSIVE dedupeLoop(_, _, _)
dedupeLoop(rs, seen, out) ==
  IF rs = <<>> THEN out
  ELSE LET r == Head(rs)
       IN IF repKey(r) \notin seen
          THEN dedupeLoop(Tail(rs), seen \cup {repKey(r)}, Append(out, r))
          ELSE dedupeLoop(Tail(rs), seen, out)

\* Mutants of dedupeByName: the key is the name alone; the key keeps the case.
RECURSIVE dedupeLoopNameOnly(_, _, _)
dedupeLoopNameOnly(rs, seen, out) ==
  IF rs = <<>> THEN out
  ELSE LET r == Head(rs)
       IN IF toLowerCase(r.name) \notin seen
          THEN dedupeLoopNameOnly(Tail(rs), seen \cup {toLowerCase(r.name)}, Append(out, r))
          ELSE dedupeLoopNameOnly(Tail(rs), seen, out)
dedupeByNameOnly(rs) == dedupeLoopNameOnly(rs, {}, <<>>)

\* Mutant of dedupeByName: a later record of a key replaces the one kept.
dedupeLastWins(rs) ==
  LET kept == dedupeLoop(rs, {}, <<>>)
      lastOf(key) == CHOOSE i \in 1..Len(rs) :
                        /\ repKey(rs[i]) = key
                        /\ \A j \in (i + 1)..Len(rs) : repKey(rs[j]) # key
  IN [k \in 1..Len(kept) |-> rs[lastOf(repKey(kept[k]))]]

dedupeByName(rs) == dedupeLoop(rs, {}, <<>>)

\* ---- inputs of the reconciler
Rep(n, o, d) == [name |-> n, elected_office |-> o, district_name |-> d]
RepUniverse ==
  { Rep("Ann Lee", "MP", "D1"),  Rep("ANN LEE", "mp", "D2"),
    Rep("Ann Lee", "MPP", "D1"), Rep("Bo Roy", "MPP", "D2"),
    Rep("Bo Roy", "MP", "D1"),   Rep("Bo Roy", "Mayor", "D1"),
    Rep("Ann Lee", "MLA", "D2"), Rep("Bo Roy", "Regional Chair", "D1") }

InitReconcile ==
  /\ rPc = "start"
  /\ rInput \in SeqsUpTo(RepUniverse, MaxReps)
  /\ rCombined = <<>>
  /\ rBuckets = NoBuckets
  /\ VotesIdle /\ LocIdle /\ InjIdle /\ ReqIdle /\ MoreIdle

Dedupe ==
  /\ rPc = "start"
  /\ rCombined' = dedupeByName(rInput)
  /\ rPc' = "deduped"
  /\ UNCHANGED <<rInput, rBuckets, votesVars, locVars, injVars, reqVars, moreVars>>

Bucket ==
  /\ rPc = "deduped"
  /\ rBuckets' = bucket(rCombined)
  /\ rPc' = "done"
  /\ UNCHANGED <<rInput, rCombined, votesVars, locVars, injVars, reqVars, moreVars>>

NextReconcile == Dedupe \/ Bucket
SpecReconcile == InitReconcile /\ [][NextReconcile]_vars

(***************************************************************************)
(* Claims about dedupeByName and bucket (SpecReconcile)                    *)
(***************************************************************************)
Range(s) == {s[i] : i \in 1..Len(s)}
Keys(rs) == {repKey(r) : r \in Range(rs)}
Orderings(rs) ==
  {[i \in 1..Len(rs) |-> rs[p[i]]] : p \in Permutations(1..Len(rs))}

\* C6: the output of dedupeByName holds no two records with the same
\* (lowercased name, lowercased office) key and one record for every key of
\* the input; records with the same name and different office titles stay
\* distinct entries; the keys of the output do not depend on the order of
\* the input.
C6_DedupeByKey ==
  rPc \in {"deduped", "done"} =>
    /\ \A i, j \in 1..Len(rCombined) :
         repKey(rCombined[i]) = repKey(rCombined[j]) => i = j
    /\ Keys(rCombined) = Keys(rInput)
    /\ Range(rCombined) \subseteq Range(rInput)
    /\ \A r1, r2 \in Range(rInput) :
         (toLowerCase(r1.name) = toLowerCase(r2.name)
            /\ toLowerCase(r1.elected_office) # toLowerCase(r2.elected_office)) =>
           \E i, j \in 1..Len(rCombined) :
             /\ i # j
             /\ repKey(rCombined[i]) = repKey(r1)
             /\ repKey(rCombined[j]) = repKey(r2)
    /\ \A o \in Orderings(rInput) : Keys(dedupeByName(o)) = Keys(rCombined)

\* C6 witness: two records with the same key (in different case) and a third
\* with the same name and another office went in; two records came out.
C6_Witness ==
  /\ rPc = "deduped"
  /\ Len(rInput) = 3
  /\ Cardinality(Range(rInput)) = 3
  /\ \A r \in Range(rInput) : toLowerCase(r.name) = "ann lee"
  /\ Cardinality(Keys(rInput)) = 2
  /\ Len(rCombined) = 2

\* C7: a representative whose office title is exactly "MP" is in the federal
\* bucket and in no other; one whose title is exactly "MPP" is in the
\* provincial bucket and in no other.
C7_MpFederalMppProvincial ==
  rPc = "done" =>
    \A r \in Range(rCombined) :
      /\ r.elected_office = "MP" =>
           /\ r \in Range(rBuckets.federal)
           /\ r \notin Range(rBuckets.provincial)
           /\ r \notin Range(rBuckets.municipal)
      /\ r.elected_office = "MPP" =>
           /\ r \in Range(rBuckets.provincial)
           /\ r \notin Range(rBuckets.federal)
           /\ r \notin Range(rBuckets.municipal)

\* C7 witness: an "MP" and an "MPP" were bucketed.
C7_Witness ==
  /\ rPc = "done"
  /\ \E r \in Range(rCombined) : r.elected_office = "MP"
  /\ \E r \in Range(rCombined) : r.elected_office = "MPP"
  /\ Len(rBuckets.federal) = 1
  /\ Len(rBuckets.provincial) = 1


(***************************************************************************)
(* Premier / prime-minister injection (GET, after the Promise.all batch)   *)
(*                                                                         *)
(* A roster member is a representative with the roles of extra.roles.      *)
(***************************************************************************)
Member(n, o, d, roles) ==
  [name |-> n, elected_office |-> o, district_name |-> d, roles |-> roles]

sameName(r, p) == toLowerCase(r.name) = toLowerCase(p.name)

\* Mutant of injectPremier: the push without the exists check.
injectPremierUnchecked(bs, premier) ==
  IF premier = Null THEN bs
  ELSE [bs EXCEPT !.provincial =
          Append(@, [premier EXCEPT !.elected_office = "Premier",
                                    !.district_name = "Alberta"])]

\* if (premier) { exists = provincial.some(same lowercased name);
\*                if (!exists) provincial.push({...premier, elected_office: "Premier", ...}) }
injectPremier(bs, premier) ==
  IF premier = Null THEN bs
  ELSE IF \E r \in Range(bs.provincial) : sameName(r, premier) THEN bs
  ELSE [bs EXCEPT !.provincial =
          Append(@, [premier EXCEPT !.elected_office = "Premier",
                                    !.district_name = "Alberta"])]

\* if (primeMinister) { ... federal.push({...primeMinister, elected_office: "Prime Minister", ...}) }
injectPrimeMinister(bs, primeMinister) ==
  IF primeMinister = Null THEN bs
  ELSE IF \E r \in Range(bs.federal) : sameName(r, primeMinister) THEN bs
  ELSE [bs EXCEPT !.federal =
          Append(@, [primeMinister EXCEPT !.elected_office = "Prime Minister",
                                          !.district_name = "Canada"])]

injectBoth(bs, premier, primeMinister) ==
  injectPrimeMinister(injectPremier(bs, premier), primeMinister)

\* ---- inputs of the injection step
PremierCandidates ==
  { Member("Dan Fox", "MLA", "D3", <<"Premier of Alberta">>),
    Member("ann lee", "MLA", "D2", <<"Premier">>) }
PrimeMinisterCandidates ==
  { Member("Cy Orr", "MP", "D4", <<"Prime Minister of Canada">>),
    Member("BO ROY", "MP", "D1", <<"Prime Minister">>) }

\* The buckets the route can hold before the injection.
ReachableBuckets == {bucket(dedupeByName(l)) : l \in SeqsUpTo(RepUniverse, MaxReps)}

InitInject ==
  /\ jPc = "run"
  /\ jBuckets \in ReachableBuckets
  /\ jPremier \in {Null} \cup PremierCandidates
  /\ jPrimeMinister \in {Null} \cup PrimeMinisterCandidates
  /\ jRuns = 0
  /\ VotesIdle /\ LocIdle /\ RecIdle /\ ReqIdle /\ MoreIdle

RunInjection ==
  /\ jPc = "run"
  /\ jRuns < MaxRuns
  /\ jBuckets' = injectBoth(jBuckets, jPremier, jPrimeMinister)
  /\ jRuns' = jRuns + 1
  /\ UNCHANGED <<jPc, jPremier, jPrimeMinister, votesVars, locVars, recVars, reqVars, moreVars>>

NextInject == RunInjection
SpecInject == InitInject /\ [][NextInject]_vars

(***************************************************************************)
(* Claims about the injection step (SpecInject)                            *)
(***************************************************************************)
EntriesOf(list, title, person) ==
  {i \in 1..Len(list) : list[i].elected_office = title /\ sameName(list[i], person)}
Namesakes(list, person) == {i \in 1..Len(list) : sameName(list[i], person)}

\* C8: however often the injection step runs on the same buckets with the
\* same officeholder, the provincial bucket holds at most one "Premier"
\* entry for that person and the federal bucket at most one "Prime Minister"
\* entry; an entry is injected only when no record of the same
\* case-insensitive name occupies the bucket, and once the step has run,
\* running it again changes nothing.
C8_InjectionIdempotent ==
  jRuns >= 1 =>
    /\ jPremier # Null =>
         /\ Cardinality(EntriesOf(jBuckets.provincial, "Premier", jPremier)) <= 1
         /\ Namesakes(jBuckets.provincial, jPremier) # {}
         /\ \A i \in EntriesOf(jBuckets.provincial, "Premier", jPremier) :
              Namesakes(jBuckets.provincial, jPremier) = {i}
    /\ jPrimeMinister # Null =>
         /\ Cardinality(EntriesOf(jBuckets.federal, "Prime Minister", jPrimeMinister)) <= 1
         /\ Namesakes(jBuckets.federal, jPrimeMinister) # {}
         /\ \A i \in EntriesOf(jBuckets.federal, "Prime Minister", jPrimeMinister) :
              Namesakes(jBuckets.federal, jPrimeMinister) = {i}
    /\ injectBoth(jBuckets, jPremier, jPrimeMinister) = jBuckets

\* C8 witness: the step ran three times on a non-empty provincial bucket and
\* the bucket holds the one injected "Premier" entry.
C8_Witness ==
  /\ jRuns = 3
  /\ jPremier # Null
  /\ Len(jBuckets.provincial) = 3
  /\ Cardinality(EntriesOf(jBuckets.provincial, "Premier", jPremier)) = 1


(***************************************************************************)
(* More string functions of the lookup route                               *)
(***************************************************************************)
UpperOf ==
  [c \in Chars(LowerLetters) |->
     CharAt(UpperLetters, CHOOSE i \in 1..26 : CharAt(LowerLetters, i) = c)]
toUpperChar(c) == IF c \in DOMAIN UpperOf THEN UpperOf[c] ELSE c

\* String.prototype.toUpperCase
RECURSIVE toUpperCase(_)
toUpperCase(s) ==
  IF s = "" THEN "" ELSE toUpperChar(Head(s)) \o toUpperCase(Tail(s))

\* \s of a regular expression (the white space the inputs use)
isSpace(c) == c \in {" ", "\t", "\n"}

\* s.replace(/\s+/g, "")
RECURSIVE removeSpaces(_)
removeSpaces(s) ==
  IF s = "" THEN ""
  ELSE IF isSpace(Head(s)) THEN removeSpaces(Tail(s))
  ELSE Head(s) \o removeSpaces(Tail(s))

RECURSIVE dropLeadingSpaces(_)
dropLeadingSpaces(s) ==
  IF s # "" /\ isSpace(Head(s)) THEN dropLeadingSpaces(Tail(s)) ELSE s

RECURSIVE dropTrailingSpaces(_)
dropTrailingSpaces(s) ==
  IF s # "" /\ isSpace(CharAt(s, Len(s)))
  THEN dropTrailingSpaces(SubSeq(s, 1, Len(s) - 1)) ELSE s

\* String.prototype.trim
trim(s) == dropTrailingSpaces(dropLeadingSpaces(s))

\* s.replace(/\s+/g, " ")
RECURSIVE collapseSpaces(_)
collapseSpaces(s) ==
  IF s = "" THEN ""
  ELSE IF isSpace(Head(s)) THEN " " \o collapseSpaces(dropLeadingSpaces(s))
  ELSE Head(s) \o collapseSpaces(Tail(s))

\* String.prototype.startsWith
startsWith(s, w) == Len(s) >= Len(w) /\ SubSeq(s, 1, Len(w)) = w

(***************************************************************************)
(* lib/postal.ts                                                           *)
(***************************************************************************)
normalizePostal(input) == toUpperCase(removeSpaces(input))

\* /^[ABCEGHJ-NPRSTVXY]\d[ABCEGHJ-NPRSTV-Z]\d[ABCEGHJ-NPRSTV-Z]\d$/
FirstLetters == Chars("ABCEGHJKLMNPRSTVXY")
OtherLetters == Chars("ABCEGHJKLMNPRSTVWXYZ")
\* Mutant of isLikelyCanadianPostal: /^[A-Z]\d[A-Z]\d[A-Z]\d$/
isAnyLetterDigitPostal(p) ==
  /\ Len(p) = 6
  /\ \A i \in {1, 3, 5} : CharAt(p, i) \in Chars(UpperLetters)
  /\ \A i \in {2, 4, 6} : CharAt(p, i) \in Chars(Digits)

\* /^[ABCEGHJ-NPRSTVXY]\d[ABCEGHJ-NPRSTV-Z]\d[ABCEGHJ-NPRSTV-Z]\d$/
isLikelyCanadianPostal(p) ==
  /\ Len(p) = 6
  /\ CharAt(p, 1) \in FirstLetters
  /\ CharAt(p, 2) \in Chars(Digits)
  /\ CharAt(p, 3) \in OtherLetters
  /\ CharAt(p, 4) \in Chars(Digits)
  /\ CharAt(p, 5) \in OtherLetters
  /\ CharAt(p, 6) \in Chars(Digits)

\* QuerySchema: z.string().min(3)
MinPostalLen == 3
querySchemaOk(raw) == Len(raw) >= MinPostalLen

(***************************************************************************)
(* Upstream helpers of the lookup route                                    *)
(***************************************************************************)
\* provinceFromPostal: the province of the first letter, "" for undefined.
provinceFromPostal(p) ==
  LET c == IF removeSpaces(p) = "" THEN "" ELSE Head(toUpperCase(removeSpaces(p)))
  IN CASE c = "A" -> "NL"
       [] c = "B" -> "NS"
       [] c = "C" -> "PE"
       [] c = "E" -> "NB"
       [] c \in {"G", "H", "J"} -> "QC"
       [] c \in {"K", "L", "M", "N", "P"} -> "ON"
       [] c = "R" -> "MB"
       [] c = "S" -> "SK"
       [] c = "T" -> "AB"
       [] c = "V" -> "BC"
       [] c = "Y" -> "YT"
       [] OTHER -> ""

\* JSON values of a coordinate array: a number, a string (numeric is
\* whether it reads as a number, v the number it reads as) or null.
JsonNumber(v)    == [t |-> "number", numeric |-> TRUE, v |-> v]
JsonNumeral(v)   == [t |-> "string", numeric |-> TRUE, v |-> v]
JsonWord         == [t |-> "string", numeric |-> FALSE, v |-> 0]
JsonNull         == [t |-> "null", numeric |-> FALSE, v |-> 0]

\* Number(x), with Number.isFinite of it: Number(null) is 0, Number of a
\* string that is no numeral is NaN.
toNumber(x) ==
  CASE x.t = "number" -> [finite |-> TRUE, v |-> x.v]
    [] x.t = "null"   -> [finite |-> TRUE, v |-> 0]
    [] OTHER          -> [finite |-> x.numeric, v |-> x.v]

\* geocodePostalCanada on a response [ok, status, coords]: coords is what
\* first?.geometry?.coordinates || first?.location?.coordinates ||
\* first?.location || null evaluates to (<<>> for null).
geocodePostalCanada(res) ==
  IF ~res.ok
  THEN [ok |-> FALSE, status |-> res.status, why |-> "status", lat |-> 0, lon |-> 0]
  ELSE IF Len(res.coords) < 2
       THEN [ok |-> FALSE, status |-> 200, why |-> "empty", lat |-> 0, lon |-> 0]
  ELSE LET lon == toNumber(res.coords[1])
           lat == toNumber(res.coords[2])
       IN IF ~lat.finite \/ ~lon.finite
          THEN [ok |-> FALSE, status |-> 200, why |-> "badCoords", lat |-> 0, lon |-> 0]
          ELSE [ok |-> TRUE, status |-> 200, why |-> "", lat |-> lat.v, lon |-> lon.v]

\* fetchRepsByPoint on a response [ok, status, objects]
fetchRepsByPoint(res) ==
  IF ~res.ok THEN [ok |-> FALSE, status |-> res.status, objects |-> <<>>]
  ELSE [ok |-> TRUE, status |-> res.status, objects |-> res.objects]

\* normalize of fetchPremier / fetchPrimeMinister
normalize(s) == toLowerCase(trim(collapseSpaces(s)))

isActualPMRole(role) ==
  LET r == normalize(role)
  IN /\ startsWith(r, "prime minister")
     /\ ~includes(r, "parliamentary secretary")
     /\ ~includes(r, "to the prime minister")
     /\ ~startsWith(r, "deputy prime minister")

isFalsePositive(r) ==
  \/ includes(r, "to the premier")
  \/ includes(r, "premier's")
  \/ includes(r, "chief of staff")
  \/ includes(r, "principal secretary")
  \/ includes(r, "press secretary")
  \/ includes(r, "communications")
  \/ includes(r, "parliamentary secretary")
  \/ includes(r, "assistant")
  \/ includes(r, "advisor")
  \/ includes(r, "adviser")
  \/ includes(r, "staff")

isActualPremierRole(role) ==
  LET r == normalize(role)
  IN /\ ~isFalsePositive(r)
     /\ ~startsWith(r, "deputy premier")
     /\ startsWith(r, "premier")

\* Array.prototype.find: the element at the least of the indices hits, or
\* Null (objects.find(...) ?? null) when there is none.
findFirst(objects, hits) ==
  IF hits = {} THEN Null
  ELSE objects[CHOOSE i \in hits : \A j \in hits : i <= j]

\* fetchPremier: only for Alberta is the roster fetched.
isAB(provinceCode) ==
  toUpperCase(trim(provinceCode)) \in {"AB", "ALBERTA"}

\* fetchPremier on the roster response [ok, objects]
fetchPremier(res) ==
  IF ~res.ok THEN Null
  ELSE LET exact == findFirst(res.objects,
                      {i \in 1..Len(res.objects) :
                         \E k \in 1..Len(res.objects[i].roles) :
                           normalize(res.objects[i].roles[k]) = "premier of alberta"})
       IN IF exact # Null THEN exact
          ELSE findFirst(res.objects,
                 {i \in 1..Len(res.objects) :
                    \E k \in 1..Len(res.objects[i].roles) :
                      isActualPremierRole(res.objects[i].roles[k])})

\* fetchPrimeMinister on the roster response [ok, objects]
fetchPrimeMinister(res) ==
  IF ~res.ok THEN Null
  ELSE findFirst(res.objects,
         {i \in 1..Len(res.objects) :
            \E k \in 1..Len(res.objects[i].roles) :
              isActualPMRole(res.objects[i].roles[k])})


(***************************************************************************)
(* GET /api/lookup: one request, step by step between its awaits           *)
(***************************************************************************)
\* ---- what the request and the upstream services can send
RawPostals == {"", "T2", "D1A 1A1", "t2x 1v4", "K1A0B1", "T2X1V", "2T1X4V", "T2X-1V4"}

ReqReps ==
  { Rep("Ann Lee", "MP", "D1"), Rep("Bo Roy", "MPP", "D2"),
    Rep("Bo Roy", "Mayor", "D1"), Rep("ann lee", "MLA", "D2"),
    Rep("Ann Lee", "Regional Chair", "D1") }
ConcordanceReps == { Rep("ANN LEE", "mp", "D9") }

\* The postcodes endpoint: a status and, for res.json(), a body that is
\* either no JSON ("invalid") or an object; province "" is null / absent.
PrimaryResponses ==
  {[status |-> 404, json |-> "object", province |-> "",
    centroid |-> <<>>, concordance |-> <<>>]} \cup
  {[status |-> 200, json |-> "object", province |-> pr,
    centroid |-> c, concordance |-> d] :
     pr \in {"AB", "ON", ""}, c \in SeqsUpTo(ReqReps, MaxObjects),
     d \in SeqsUpTo(ConcordanceReps, 1)} \cup
  {[status |-> 500, json |-> j, province |-> "",
    centroid |-> <<>>, concordance |-> <<>>] : j \in {"invalid", "object"}}

GeocodeResponses ==
  {[ok |-> FALSE, status |-> 500, coords |-> <<>>]} \cup
  {[ok |-> TRUE, status |-> 200, coords |-> cs] :
     cs \in { <<>>, <<JsonNumber(-114)>>,
              <<JsonNumber(-114), JsonNumber(51)>>,
              <<JsonNumeral(-114), JsonNumeral(51)>>,
              <<JsonWord, JsonNumber(51)>>,
              <<JsonNull, JsonNull>> }}

PointResponses ==
  {[ok |-> FALSE, status |-> 500, objects |-> <<>>]} \cup
  {[ok |-> TRUE, status |-> 200, objects |-> os] :
     os \in SeqsUpTo(ReqReps, MaxObjects)}

AlbertaRoster ==
  { Member("Dan Fox", "MLA", "D3", <<"Premier of Alberta">>),
    Member("ann lee", "MLA", "D2", <<"Minister", " Premier ">>),
    Member("Eve Kay", "MLA", "D5", <<"Deputy Premier">>),
    Member("Gil Poe", "MLA", "D6", <<"Parliamentary Secretary to the Premier">>) }
CommonsRoster ==
  { Member("Cy Orr", "MP", "D4", <<"Prime Minister of Canada">>),
    Member("Ann Lee", "MP", "D1", <<"Prime  Minister">>),
    Member("Hal Ito", "MP", "D7", <<"Deputy Prime Minister">>) }
RosterResponses(roster) ==
  {[ok |-> FALSE, objects |-> <<>>]} \cup
  {[ok |-> TRUE, objects |-> os] : os \in SeqsUpTo(roster, MaxRoster)}

\* What fetchPremier / fetchPrimeMinister can resolve to.
PremierOutcomes == {fetchPremier(res) : res \in RosterResponses(AlbertaRoster)}
PrimeMinisterOutcomes ==
  {fetchPrimeMinister(res) : res \in RosterResponses(CommonsRoster)}

NotFoundMessage == "We couldn't find that postal code."
Pending     == [state |-> "pending", value |-> Null]
Rejected    == [state |-> "rejected", value |-> Null]
Resolved(v) == [state |-> "done", value |-> v]

\* NextResponse.json(body, {status}): error is "" for a body without error,
\* step is debug.step ("" without debug), reps the buckets of a LookupResult.
Respond(status, error, step, bs) ==
  /\ response' = [status |-> status, error |-> error, step |-> step, reps |-> bs]
  /\ pc' = "responded"

\* Mutant of primaryNotFound: every non-success status starts the fallback.
primaryNotOk(status) == status < 200 \/ status > 299

\* if (res.status === 404)
primaryNotFound(status) == status = 404

\* dedupeByName, bucket, and the two fetches of Promise.all started: the
\* premier roster is fetched for Alberta only.
BeginBatch(objects, provinceCode) ==
  /\ buckets' = bucket(dedupeByName(objects))
  /\ premierTask' = IF isAB(provinceCode) THEN Pending ELSE Resolved(Null)
  /\ primeMinisterTask' = Pending
  /\ calls' = calls \o (IF isAB(provinceCode) THEN <<"alberta-legislature">> ELSE <<>>)
                    \o <<"house-of-commons">>
  /\ pc' = "awaitBatch"

InitRequest ==
  /\ pc = "start"
  /\ rawPostal \in RawPostals
  /\ postal = "" /\ primary = Null /\ geo = Null /\ reps = Null
  /\ buckets = NoBuckets
  /\ premierTask = Null /\ primeMinisterTask = Null
  /\ response = Null /\ calls = <<>>
  /\ VotesIdle /\ LocIdle /\ RecIdle /\ InjIdle /\ MoreIdle

notReq == <<votesVars, locVars, recVars, injVars, moreVars>>

\* QuerySchema.safeParse, normalizePostal, isLikelyCanadianPostal, then the
\* fetch of the postcodes endpoint.
Validate ==
  /\ pc = "start"
  /\ IF ~querySchemaOk(rawPostal)
     THEN /\ Respond(400, "Missing postal", "", NoBuckets)
          /\ UNCHANGED <<postal, calls>>
     ELSE /\ postal' = normalizePostal(rawPostal)
          /\ IF ~isLikelyCanadianPostal(normalizePostal(rawPostal))
             THEN /\ Respond(400, "That doesn't look like a Canadian postal code (format: A1A1A1).",
                             "", NoBuckets)
                  /\ UNCHANGED calls
             ELSE /\ calls' = <<"postcodes">>
                  /\ pc' = "awaitPostal"
                  /\ UNCHANGED response
  /\ UNCHANGED <<rawPostal, primary, geo, reps, buckets, premierTask,
                 primeMinisterTask, notReq>>

\* The postcodes fetch resolves: 404 starts the geocoder; any other status
\* goes on to res.json() and the reconciliation.
PrimaryResponds ==
  /\ pc = "awaitPostal"
  /\ \E res \in PrimaryResponses :
       /\ primary' = [status |-> res.status, json |-> res.json, province |-> res.province]
       /\ IF primaryNotFound(res.status)
          THEN /\ calls' = Append(calls, "geocode")
               /\ pc' = "awaitGeocode"
               /\ UNCHANGED <<buckets, premierTask, primeMinisterTask>>
          ELSE IF res.json = "invalid"
          THEN /\ pc' = "threw"
               /\ UNCHANGED <<calls, buckets, premierTask, primeMinisterTask>>
          ELSE BeginBatch(res.centroid \o res.concordance, res.province)
  /\ UNCHANGED <<rawPostal, postal, geo, reps, response, notReq>>

\* geocodePostalCanada returns.
GeocodeResponds ==
  /\ pc = "awaitGeocode"
  /\ \E res \in GeocodeResponses :
       /\ geo' = geocodePostalCanada(res)
       /\ IF ~geocodePostalCanada(res).ok
          THEN /\ Respond(404, NotFoundMessage, "geocode", NoBuckets)
               /\ UNCHANGED calls
          ELSE /\ calls' = Append(calls, "point")
               /\ pc' = "awaitPoint"
               /\ UNCHANGED response
  /\ UNCHANGED <<rawPostal, postal, primary, reps, buckets, premierTask,
                 primeMinisterTask, notReq>>

\* fetchRepsByPoint returns.
PointResponds ==
  /\ pc = "awaitPoint"
  /\ \E res \in PointResponses :
       /\ reps' = fetchRepsByPoint(res)
       /\ IF ~res.ok
          THEN /\ Respond(404, NotFoundMessage, "represent_point_lookup_failed", NoBuckets)
               /\ UNCHANGED <<calls, buckets, premierTask, primeMinisterTask>>
          ELSE IF Len(res.objects) = 0
          THEN /\ Respond(404, NotFoundMessage, "represent_point_lookup_empty", NoBuckets)
               /\ UNCHANGED <<calls, buckets, premierTask, primeMinisterTask>>
          ELSE /\ BeginBatch(res.objects, provinceFromPostal(postal))
               /\ UNCHANGED response
  /\ UNCHANGED <<rawPostal, postal, primary, geo, notReq>>

\* fetchPremier of the batch resolves.
PremierSettles ==
  /\ pc = "awaitBatch"
  /\ premierTask = Pending
  /\ \E v \in PremierOutcomes : premierTask' = Resolved(v)
  /\ UNCHANGED <<pc, rawPostal, postal, primary, geo, reps, buckets,
                 primeMinisterTask, response, calls, notReq>>

\* fetchPrimeMinister of the batch resolves.
PrimeMinisterSettles ==
  /\ pc = "awaitBatch"
  /\ primeMinisterTask = Pending
  /\ \E v \in PrimeMinisterOutcomes : primeMinisterTask' = Resolved(v)
  /\ UNCHANGED <<pc, rawPostal, postal, primary, geo, reps, buckets,
                 premierTask, response, calls, notReq>>

\* Promise.all has resolved: the injection, then the LookupResult.
FinishBatch ==
  /\ pc = "awaitBatch"
  /\ premierTask.state = "done" /\ primeMinisterTask.state = "done"
  /\ buckets' = injectBoth(buckets, premierTask.value, primeMinisterTask.value)
  /\ Respond(200, "", "", injectBoth(buckets, premierTask.value, primeMinisterTask.value))
  /\ UNCHANGED <<rawPostal, postal, primary, geo, reps, premierTask,
                 primeMinisterTask, calls, notReq>>

\* A fetch of the handler itself rejects (network failure), or the geocoder
\* or point response is no JSON: nothing in GET catches it.
FetchRejects ==
  /\ pc \in {"awaitPostal", "awaitGeocode", "awaitPoint"}
  /\ pc' = "threw"
  /\ UNCHANGED <<rawPostal, postal, primary, geo, reps, buckets, premierTask,
                 primeMinisterTask, response, calls, notReq>>

\* A fetch of the batch rejects: Promise.all rejects and GET throws.
BatchFetchRejects ==
  /\ pc = "awaitBatch"
  /\ \/ /\ premierTask = Pending
        /\ premierTask' = Rejected
        /\ UNCHANGED primeMinisterTask
     \/ /\ primeMinisterTask = Pending
        /\ primeMinisterTask' = Rejected
        /\ UNCHANGED premierTask
  /\ pc' = "threw"
  /\ UNCHANGED <<rawPostal, postal, primary, geo, reps, buckets, response,
                 calls, notReq>>

Next ==
  \/ Validate
  \/ PrimaryResponds
  \/ GeocodeResponds
  \/ PointResponds
  \/ PremierSettles
  \/ PrimeMinisterSettles
  \/ FinishBatch
  \/ FetchRejects
  \/ BatchFetchRejects

Spec == InitRequest /\ [][Next]_vars


(***************************************************************************)
(* Claims about the geocode fallback of the lookup request                 *)
(***************************************************************************)
BucketNames == {"municipal", "provincial", "federal"}
BucketsHolding(bs, r) == {b \in BucketNames : r \in Range(bs[b])}
Called(step) == \E i \in 1..Len(calls) : calls[i] = step
CalledBefore(a, b) ==
  \E i, j \in 1..Len(calls) : i < j /\ calls[i] = a /\ calls[j] = b

\* The fallback path went through: the primary lookup returned 404, the
\* geocoder succeeded and the point lookup succeeded with one object.
FallbackWithOneObject ==
  /\ primary # Null /\ primary.status = 404
  /\ geo # Null /\ geo.ok
  /\ reps # Null /\ reps.ok /\ Len(reps.objects) = 1

\* C9: when the primary postal lookup returns 404, the geocoder succeeds and
\* the point lookup succeeds with exactly one object, the response of the
\* lookup is a non-error result (status 200, no error) in which that object
\* is in exactly one of the three buckets, whatever its office title.
C9_FallbackOneObjectInOneBucket ==
  (FallbackWithOneObject /\ pc = "responded") =>
     /\ response.status = 200
     /\ response.error = ""
     /\ Cardinality(BucketsHolding(response.reps, reps.objects[1])) = 1

\* C10: the geocoder is called only after the primary lookup has returned
\* 404; the point lookup is called only after the geocoder has returned
\* coordinates (ok, with a finite latitude and longitude); a 404 response is
\* sent only after the primary 404 and the failure of one step of the chain,
\* and its debug record names that step.
C10_FallbackChainOrder ==
  /\ Called("geocode") =>
       /\ primary # Null /\ primary.status = 404
       /\ CalledBefore("postcodes", "geocode")
  /\ Called("point") =>
       /\ geo # Null /\ geo.ok
       /\ CalledBefore("geocode", "point")
  /\ (response # Null /\ response.status = 404) =>
       /\ primary # Null /\ primary.status = 404
       /\ Called("geocode")
       /\ geo # Null
       /\ \/ /\ response.step = "geocode"
             /\ ~geo.ok
             /\ ~Called("point")
          \/ /\ response.step = "represent_point_lookup_failed"
             /\ Called("point") /\ reps # Null /\ ~reps.ok
          \/ /\ response.step = "represent_point_lookup_empty"
             /\ Called("point") /\ reps # Null /\ reps.ok
             /\ Len(reps.objects) = 0

\* The chain ran to its last step and failed there: a 404 naming the empty
\* point lookup, after a primary 404 and a successful geocode.
C10_Witness ==
  /\ pc = "responded"
  /\ response.status = 404
  /\ response.step = "represent_point_lookup_empty"
  /\ calls = <<"postcodes", "geocode", "point">>
  /\ primary.status = 404 /\ geo.ok


\* The postcodes endpoint answered with a non-success status other than 404.
PrimaryFailed ==
  /\ primary # Null
  /\ primary.status # 404
  /\ (primary.status < 200 \/ primary.status > 299)

\* C11: when the primary postal lookup returns a non-success status other
\* than 404, the response of the lookup request is a 502 error payload and
\* never a LookupResult (a 200 with buckets) built from that response.
C11_PrimaryFailureIs502 ==
  (PrimaryFailed /\ pc = "responded") =>
     /\ response.status = 502
     /\ response.error # ""


(***************************************************************************)
(* The vote request: GET /api/provincial-votes (runScript) and the main of *)
(* scripts/ab-votes-latest.mjs                                             *)
(***************************************************************************)
\* norm applied to a string: s.replace(/\s+/g, " ").trim()
normString(s) == trim(collapseSpaces(s))
normLowerString(s) == toLowerCase(normString(s))

\* norm(fullName).split(" "), each part lowercased as normLower does to the
\* last of them: "".split(" ") is [""], modelled as no word.
RECURSIVE splitAfterNorm(_, _)
splitAfterNorm(s, word) ==
  IF s = "" THEN (IF word = "" THEN <<>> ELSE <<word>>)
  ELSE IF Head(s) = " " THEN <<word>> \o splitAfterNorm(Tail(s), "")
  ELSE splitAfterNorm(Tail(s), word \o Head(s))
wordsOf(fullName) == splitAfterNorm(normLowerString(fullName), "")

\* getArg(flag): process.argv.indexOf(flag), then argv[i + 1] || ""
getArg(argv, flag) ==
  LET hits == {i \in 1..Len(argv) : argv[i] = flag}
  IN IF hits = {} THEN ""
     ELSE LET i == CHOOSE k \in hits : \A j \in hits : k <= j
          IN IF i + 1 <= Len(argv) THEN argv[i + 1] ELSE ""

\* .slice(0, 12)
MaxItems == 12
\* Mutant of sliceItems: the last twelve, .slice(-12)
sliceLastItems(items) ==
  SubSeq(items, IF Len(items) < MaxItems THEN 1 ELSE Len(items) - MaxItems + 1, Len(items))

sliceItems(items) == SubSeq(items, 1, IF Len(items) < MaxItems THEN Len(items) ELSE MaxItems)

PdfSignature == "%PDF-"
NoVpNote    == "No VP PDF found."
NoVotesNote == "No recorded votes found in the latest Votes & Proceedings PDF."

\* What the script prints: one JSON object (error, note, pdfUrl and
\* firstBytes are "" / Null when the object has no such key); clean is FALSE
\* when other lines were printed on stdout besides it.
Out(error, items, note, pdfUrl, firstBytes, clean) ==
  [error |-> error, items |-> items, note |-> note, pdfUrl |-> pdfUrl,
   firstBytes |-> firstBytes, clean |-> clean]
ErrorOut(error) == Out(error, <<>>, "", Null, "", TRUE)

\* ---- what a vote request and its upstream can send
NameParams   == {"", "  ", "Jane  Smith", " taylor", "--riding"}
RidingParams == {"", " ", "Calgary-Centre", "--debug"}
ScriptArgvs ==
  { <<>>, <<"--name">>, <<"--name", "Jane Smith">>, <<"--name", "  ">>,
    <<"--riding", "Calgary-Centre", "--name", "Jane Smith">>,
    <<"--name", "--riding", "Calgary-Centre">> }

VpHref(d) ==
  [ext |-> "pdf", form |-> "http", host |-> DocsHost, mark |-> "_vp", date |-> d]
IndexHrefs ==
  { VpHref(1), VpHref(2),
    [ext |-> "pdf", form |-> "/", host |-> "", mark |-> "", date |-> 0] }
IndexResponses ==
  {[ok |-> FALSE, status |-> 503, html |-> <<>>]} \cup
  {[ok |-> TRUE, status |-> 200, html |-> h] : h \in SeqsUpTo(IndexHrefs, MaxIndexLinks)}

Division(for, against) == <<ForMarker>> \o for \o <<AgainstMarker>> \o against
RECURSIVE Repeat(_, _)
Repeat(seq, n) == IF n = 0 THEN <<>> ELSE seq \o Repeat(seq, n - 1)
PdfTexts ==
  { <<>>, <<"smith", "jones">>,
    Division(<<"smith">>, <<"jones">>),
    Division(<<"jones">>, <<"smith", "(", "calgary-centre", ")">>),
    Division(<<"jones">>, <<>>),
    Repeat(Division(<<"smith">>, <<>>), MaxItems + 1) }
\* The PDF fetch: firstBytes is buf.slice(0, 10).toString("utf8"); loads says
\* whether pdfjs can read the document, text is what it extracts, warns
\* whether pdfjs printed a warning line on stdout while doing so.
PdfResponses ==
  {[ok |-> FALSE, status |-> 404, firstBytes |-> "", loads |-> FALSE,
    text |-> <<>>, warns |-> FALSE]} \cup
  {[ok |-> TRUE, status |-> 200, firstBytes |-> fb, loads |-> FALSE,
    text |-> <<>>, warns |-> FALSE] : fb \in {"", "<!DOCTYPE ", "%PDF", "%PDF-1.7\n%"}} \cup
  {[ok |-> TRUE, status |-> 200, firstBytes |-> "%PDF-1.7\n%", loads |-> TRUE,
    text |-> t, warns |-> w] : t \in PdfTexts, w \in BOOLEAN}


InitVoteRequest ==
  /\ tPc = "start"
  /\ \/ /\ tEntry = "route"
        /\ tName \in NameParams /\ tRiding \in RidingParams
        /\ tDebug \in BOOLEAN
        /\ tArgs = <<>>
     \/ /\ tEntry = "script"
        /\ tName = "" /\ tRiding = "" /\ tDebug = FALSE
        /\ tArgs \in ScriptArgvs
  /\ tIndex = Null /\ tPdfUrl = Null /\ tPdf = Null /\ tOut = Null /\ tResponse = Null /\ tCalls = <<>>
  /\ NotPipeIdle

\* Mutant of nameMissing: the test without trim().
nameEmpty(name) == name = ""

\* if (!name.trim())
nameMissing(name) == trim(name) = ""

\* The vote route: the name test, then runScript(args) spawns the script.
RouteGet ==
  /\ tPc = "start" /\ tEntry = "route"
  /\ IF nameMissing(tName)
     THEN /\ tResponse' = [status |-> 400, body |-> ErrorOut("Missing name")]
          /\ tPc' = "responded"
          /\ UNCHANGED <<tArgs, tCalls>>
     ELSE /\ tArgs' = <<"--name", tName>> \o
                      (IF trim(tRiding) # "" THEN <<"--riding", tRiding>> ELSE <<>>) \o
                      (IF tDebug THEN <<"--debug", "1">> ELSE <<>>)
          /\ tCalls' = Append(tCalls, "spawn")
          /\ tPc' = "main"
          /\ UNCHANGED tResponse
  /\ UNCHANGED <<tIndex, tPdf, tEntry, tName, tRiding, tDebug, tPdfUrl, tOut, notPipe>>

\* The script run by hand, with its own argv.
RunByHand ==
  /\ tPc = "start" /\ tEntry = "script"
  /\ tPc' = "main"
  /\ UNCHANGED <<tIndex, tPdf, tEntry, tName, tRiding, tDebug, tArgs, tPdfUrl, tOut, tResponse, tCalls, notPipe>>

\* main up to the fetch of the index page.
MainStarts ==
  /\ tPc = "main"
  /\ IF getArg(tArgs, "--name") = ""
     THEN /\ tOut' = ErrorOut("Missing --name")
          /\ tPc' = "exited"
          /\ UNCHANGED tCalls
     ELSE /\ tCalls' = Append(tCalls, "index")
          /\ tPc' = "awaitIndex"
          /\ UNCHANGED tOut
  /\ UNCHANGED <<tIndex, tPdf, tEntry, tName, tRiding, tDebug, tArgs, tPdfUrl, tResponse, notPipe>>

\* The index page arrives: extractLatestVpPdfUrl, then the fetch of the PDF.
IndexResponds ==
  /\ tPc = "awaitIndex"
  /\ \E res \in IndexResponses :
       /\ tIndex' = res
       /\ IF ~res.ok
          THEN /\ tOut' = ErrorOut("Index fetch failed")
               /\ tPc' = "exited"
               /\ UNCHANGED <<tPdfUrl, tCalls>>
          ELSE /\ tPdfUrl' = extractLatestVpPdfUrl(res.html)
               /\ IF extractLatestVpPdfUrl(res.html) = Null
                  THEN /\ tOut' = Out("", <<>>, NoVpNote, Null, "", TRUE)
                       /\ tPc' = "exited"
                       /\ UNCHANGED tCalls
                  ELSE /\ tCalls' = Append(tCalls, "pdf")
                       /\ tPc' = "awaitPdf"
                       /\ UNCHANGED tOut
  /\ UNCHANGED <<tPdf, tEntry, tName, tRiding, tDebug, tArgs, tResponse, notPipe>>

\* The items of out: extractVotesForMla(text, name, riding).slice(0, 12),
\* each with official_url.
votesOf(text, name, riding, pdfUrl) ==
  LET found == sliceItems(extractVotesForMla(text, wordsOf(name), normLowerString(riding)))
  IN [i \in 1..Len(found) |->
        [at |-> found[i].at, vote |-> found[i].vote, official_url |-> pdfUrl]]

\* Mutant of noteFor: the note on every result.
noteAlways(votes) == NoVotesNote

\* note: votes.length ? undefined : "No recorded votes found ..."
noteFor(votes) == IF Len(votes) # 0 THEN "" ELSE NoVotesNote

\* Mutant of isPdf: the signature test left out.
anyBytes(firstBytes) == TRUE

\* firstBytes.startsWith("%PDF-")
isPdf(firstBytes) == startsWith(firstBytes, PdfSignature)

\* The PDF response arrives: status, signature, pdfBufferToText, the
\* extraction and the printed result.  A document pdfjs cannot load makes
\* pdfBufferToText reject, which main().catch prints as an error.
PdfResponds ==
  /\ tPc = "awaitPdf"
  /\ \E res \in PdfResponses :
       /\ tPdf' = res
       /\ IF ~res.ok
          THEN /\ tOut' = Out("PDF fetch failed", <<>>, "", tPdfUrl, "", TRUE)
               /\ UNCHANGED tCalls
          ELSE IF ~isPdf(res.firstBytes)
          THEN /\ tOut' = Out("Not a PDF response", <<>>, "", tPdfUrl, res.firstBytes, TRUE)
               /\ UNCHANGED tCalls
          ELSE /\ tCalls' = Append(tCalls, "pdfBufferToText")
               /\ IF ~res.loads
                  THEN tOut' = ErrorOut("Invalid PDF structure.")
                  ELSE LET name   == getArg(tArgs, "--name")
                           riding == getArg(tArgs, "--riding")
                           votes  == votesOf(res.text, name, riding, tPdfUrl)
                       IN tOut' = Out("", votes, noteFor(votes), Null, "", ~res.warns)
  /\ tPc' = "exited"
  /\ UNCHANGED <<tIndex, tEntry, tName, tRiding, tDebug, tArgs, tPdfUrl, tResponse, notPipe>>

\* A fetch of main rejects, or reading a body does: main().catch prints the
\* message as an error object.
MainCatches ==
  /\ tPc \in {"awaitIndex", "awaitPdf"}
  /\ tOut' = ErrorOut("fetch failed")
  /\ tPc' = "exited"
  /\ UNCHANGED <<tIndex, tPdf, tEntry, tName, tRiding, tDebug, tArgs, tPdfUrl, tResponse, tCalls, notPipe>>

\* The child closes: runScript resolves with its output, the route parses it
\* and answers with the parsed object; output that is no JSON is caught.
RouteReceives ==
  /\ tPc = "exited" /\ tEntry = "route"
  /\ tResponse' = IF tOut.clean THEN [status |-> 200, body |-> tOut]
                  ELSE [status |-> 500, body |-> ErrorOut("Unexpected token")]
  /\ tPc' = "responded"
  /\ UNCHANGED <<tIndex, tPdf, tEntry, tName, tRiding, tDebug, tArgs, tPdfUrl, tOut, tCalls, notPipe>>

\* The child closes with a non-zero code and no output: runScript rejects and
\* the route's catch answers 500.
ChildFails ==
  /\ tPc \in {"main", "awaitIndex", "awaitPdf"} /\ tEntry = "route"
  /\ tResponse' = [status |-> 500, body |-> ErrorOut("Script failed")]
  /\ tPc' = "responded"
  /\ UNCHANGED <<tIndex, tPdf, tEntry, tName, tRiding, tDebug, tArgs, tPdfUrl, tOut, tCalls, notPipe>>

NextVoteRequest ==
  \/ RouteGet
  \/ RunByHand
  \/ MainStarts
  \/ IndexResponds
  \/ PdfResponds
  \/ MainCatches
  \/ RouteReceives
  \/ ChildFails

SpecVoteRequest == InitVoteRequest /\ [][NextVoteRequest]_vars

\* Every entry point: one lookup request or one vote request.
InitEntryPoints == InitRequest \/ InitVoteRequest
NextEntryPoints == Next \/ NextVoteRequest
SpecEntryPoints == InitEntryPoints /\ [][NextEntryPoints]_vars


(***************************************************************************)
(* Claims about the entry points (SpecEntryPoints)                         *)
(***************************************************************************)
\* A postal code of the shape letter-digit-letter-digit-letter-digit once
\* whitespace is removed and letters are uppercased.
ShapeA1A1A1(raw) ==
  LET p == normalizePostal(raw)
  IN /\ Len(p) = 6
     /\ \A i \in {1, 3, 5} : CharAt(p, i) \in Chars(UpperLetters)
     /\ \A i \in {2, 4, 6} : CharAt(p, i) \in Chars(Digits)
Blank(s) == \A i \in 1..Len(s) : isSpace(CharAt(s, i))

\* C12: a lookup request whose postal code is missing or malformed, and a
\* vote request whose name is missing or blank, ends with a 400 response
\* with no network call made and no script spawned; the script given no
\* name prints its error before any fetch; a 400 is never sent after a call.
C12_RejectedBeforeAnyCall ==
  /\ (pc \notin {"idle", "start"} /\ ~ShapeA1A1A1(rawPostal)) =>
        /\ pc = "responded" /\ response.status = 400 /\ calls = <<>>
  /\ (response # Null /\ response.status = 400) => calls = <<>>
  /\ (tEntry = "route" /\ tPc \notin {"idle", "start"} /\ Blank(tName)) =>
        /\ tPc = "responded" /\ tResponse.status = 400 /\ tCalls = <<>>
  /\ (tResponse # Null /\ tResponse.status = 400) => tCalls = <<>>
  /\ (tEntry = "script" /\ tPc \notin {"idle", "start", "main"}
        /\ ~(\E i \in 1..(Len(tArgs) - 1) : tArgs[i] = "--name")) =>
        /\ tPc = "exited" /\ tOut.error = "Missing --name" /\ tCalls = <<>>

\* A vote request with a name of spaces only was answered 400.
C12_Witness ==
  /\ tEntry = "route" /\ tName = "  "
  /\ tPc = "responded" /\ tResponse.status = 400 /\ tCalls = <<>>


(***************************************************************************)
(* The postal validator on its own (SpecPostal)                            *)
(***************************************************************************)
PostalFirsts == {"T", "t", "K", "D", "Q", "W", "Z", "7"}
PostalThirds == {"X", "x", "W", "Z", "D", "Q", "U", "1"}
PostalFifths == {"V", "W", "Z", "F", "I", "O"}
PostalInputs ==
  {a \o "2" \o b \o sep \o "1" \o c \o "4" :
     a \in PostalFirsts, b \in PostalThirds, c \in PostalFifths,
     sep \in {"", " "}} \cup
  {"", "T2X", "T2X1V", "T2X1V44", "T2X-1V4", " t2x\t1v4 ", "TTX1V4", "T2X1VA"}

InitPostal ==
  /\ zPc = "start"
  /\ zRaw \in PostalInputs
  /\ zPostal = "" /\ zValid = FALSE
  /\ NotPostIdle

CheckPostal ==
  /\ zPc = "start"
  /\ zPostal' = normalizePostal(zRaw)
  /\ zValid' = isLikelyCanadianPostal(normalizePostal(zRaw))
  /\ zPc' = "done"
  /\ UNCHANGED <<zRaw, notPost>>

NextPostal == CheckPostal
SpecPostal == InitPostal /\ [][NextPostal]_vars

LDLDLD(p) ==
  /\ Len(p) = 6
  /\ \A i \in {1, 3, 5} : CharAt(p, i) \in Chars(UpperLetters)
  /\ \A i \in {2, 4, 6} : CharAt(p, i) \in Chars(Digits)

\* C13 as stated: the validator accepts only strings of six characters
\* letter-digit-letter-digit-letter-digit, with a first letter that is none
\* of D, F, I, O, Q, U and a third and fifth letter that are none of
\* D, F, I, O, U, W, Z.
C13_AsStated ==
  (zPc = "done" /\ zValid) =>
     /\ LDLDLD(zPostal)
     /\ CharAt(zPostal, 1) \notin Chars("DFIOQU")
     /\ CharAt(zPostal, 3) \notin Chars("DFIOUWZ")
     /\ CharAt(zPostal, 5) \notin Chars("DFIOUWZ")

\* C13 amended: the validator accepts only strings of six characters
\* letter-digit-letter-digit-letter-digit, with a first letter that is none
\* of D, F, I, O, Q, U and a third and fifth letter that are none of
\* D, F, I, O, U; W and Z are accepted in the third and fifth position.
C13_AcceptsOnlyPostalShape ==
  (zPc = "done") =>
     /\ zValid =>
          /\ LDLDLD(zPostal)
          /\ CharAt(zPostal, 1) \notin Chars("DFIOQU")
          /\ CharAt(zPostal, 3) \notin Chars("DFIOU")
          /\ CharAt(zPostal, 5) \notin Chars("DFIOU")
     /\ (zPostal \in {"T2W1Z4", "T2Z1W4"}) => zValid

\* A code with W and Z in the third and fifth position was accepted.
C13_Witness == zPc = "done" /\ zRaw = "t2W 1Z4" /\ zPostal = "T2W1Z4" /\ zValid


\* C14: every entry point turns an exception raised while it handles a
\* request (a rejected fetch, a body that is no JSON) into an error payload:
\* no lookup request ends with an unhandled exception, a vote script that
\* has exited has printed an object, and a vote route that has ended has
\* sent a response.
C14_EveryExceptionBecomesPayload ==
  /\ pc # "threw"
  /\ tPc = "exited" => tOut # Null
  /\ tPc = "responded" => tResponse # Null

\* C15: the fetches of the premier / prime-minister batch are started
\* together and the response waits for both; a fetch of the batch that
\* fails, in whatever way, does not end the request: the request does not
\* stop with the failure, and a response is built from both outcomes.
C15_BatchFailureDegrades ==
  /\ (pc = "awaitBatch") =>
        /\ premierTask # Null /\ primeMinisterTask # Null
        /\ Called("house-of-commons")
  /\ (pc = "responded" /\ response.status = 200) =>
        /\ premierTask.state = "done" /\ primeMinisterTask.state = "done"
  /\ (premierTask = Rejected \/ primeMinisterTask = Rejected) => pc # "threw"


(***************************************************************************)
(* fetchAllRepresentatives: pagination of a roster (SpecPages)             *)
(***************************************************************************)
RepresentBase == "https://represent.opennorth.ca"
GuardLimit == 25

\* Mutant of underGuard: the ceiling off by one.
underGuardInclusive(guard) == guard <= GuardLimit

\* guard < 25
underGuard(guard) == guard < GuardLimit

\* What a page can answer: a status, a body that is JSON or not, the number
\* of objects on the page, and meta.next: Null when absent or null, else a
\* string (empty, a path, or an absolute URL).
RosterPaths == {"/r/?page=1", "/r/?page=2"}
NextPointers ==
  {Null} \cup {[str |-> x] : x \in {""} \cup RosterPaths \cup
                                   {RepresentBase \o q : q \in RosterPaths}}
PageResponses ==
  {[ok |-> FALSE, json |-> TRUE, n |-> 0, next |-> Null]} \cup
  {[ok |-> TRUE, json |-> FALSE, n |-> 0, next |-> Null]} \cup
  {[ok |-> TRUE, json |-> TRUE, n |-> k, next |-> nx] :
     k \in 0..1, nx \in NextPointers}

\* typeof rawNext === "string" && rawNext.length > 0 ? (absolute or under
\* the base) : null
followNext(rawNext) ==
  IF rawNext = Null THEN Null
  ELSE IF Len(rawNext.str) = 0 THEN Null
  ELSE IF startsWith(rawNext.str, "http") THEN [str |-> rawNext.str]
  ELSE [str |-> RepresentBase \o rawNext.str]

InitPages ==
  /\ fPc = "loop"
  /\ fNextUrl \in {[str |-> RepresentBase \o q \o "?format=json&limit=500"] : q \in {"/r/"}}
  /\ fGuard = 0 /\ fAll = 0 /\ fFetches = 0 /\ fInFlight = 0 /\ fLast = "none"
  /\ NotPageIdle

\* while (nextUrl && guard < 25): the fetch of the next page is issued.
IssuePageFetch ==
  /\ fPc = "loop"
  /\ fNextUrl # Null /\ underGuard(fGuard)
  /\ fFetches' = fFetches + 1
  /\ fInFlight' = fInFlight + 1
  /\ fPc' = "awaitPage"
  /\ UNCHANGED <<fNextUrl, fGuard, fAll, fLast, notPage>>

\* The loop condition fails: return all.
LoopEnds ==
  /\ fPc = "loop"
  /\ ~(fNextUrl # Null /\ underGuard(fGuard))
  /\ fPc' = "done"
  /\ UNCHANGED <<fNextUrl, fGuard, fAll, fFetches, fInFlight, fLast, notPage>>

\* The page arrives: break on a non-success status; else push the objects,
\* follow meta.next and count the page.
PageResponds ==
  /\ fPc = "awaitPage"
  /\ fInFlight' = fInFlight - 1
  /\ \E res \in PageResponses :
       IF ~res.ok
       THEN /\ fPc' = "done" /\ fLast' = "notOk"
            /\ UNCHANGED <<fNextUrl, fGuard, fAll>>
       ELSE IF ~res.json
       THEN /\ fPc' = "threw" /\ fLast' = "threw"
            /\ UNCHANGED <<fNextUrl, fGuard, fAll>>
       ELSE /\ fAll' = fAll + res.n
            /\ fNextUrl' = followNext(res.next)
            /\ fLast' = IF followNext(res.next) = Null THEN "noNext" ELSE "next"
            /\ fGuard' = fGuard + 1
            /\ fPc' = "loop"
  /\ UNCHANGED <<fFetches, notPage>>

\* The fetch of a page rejects: fetchAllRepresentatives rejects.
PageFetchRejects ==
  /\ fPc = "awaitPage"
  /\ fInFlight' = fInFlight - 1
  /\ fPc' = "threw" /\ fLast' = "threw"
  /\ UNCHANGED <<fNextUrl, fGuard, fAll, fFetches, notPage>>

NextPages ==
  \/ IssuePageFetch
  \/ LoopEnds
  \/ PageResponds
  \/ PageFetchRejects

\* Every fetch that was issued settles, and the loop goes on when it can.
SpecPages == InitPages /\ [][NextPages]_vars /\ WF_vars(NextPages)

\* C16: fetchAllRepresentatives ends for every sequence of page responses,
\* cyclic or endless next pointers included; at every moment at most one
\* page fetch is in flight and at most 25 were issued; a fetch is issued only
\* while every earlier page answered with success and a next pointer, and
\* the function has returned only after a page without next pointer, a
\* non-success status, or the 25th page.
C16_PaginationTerminates ==
  /\ [](/\ fInFlight <= 1
        /\ fFetches <= GuardLimit
        /\ fPc = "awaitPage" => fLast \in {"none", "next"}
        /\ fPc = "done" => (fLast \in {"noNext", "notOk"} \/ fFetches = GuardLimit))
  /\ <>(fPc \in {"done", "threw"})

\* The loop was stopped by the ceiling: 25 pages fetched, a next pointer left.
C16_Witness ==
  /\ fPc = "done" /\ fFetches = GuardLimit /\ fGuard = GuardLimit
  /\ fNextUrl # Null /\ fLast = "next"


(***************************************************************************)
(* Claims about the vote request (SpecVoteRequest)                         *)
(***************************************************************************)
Started(step) == \E i \in 1..Len(tCalls) : tCalls[i] = step
HasPdfSignature(bytes) == Len(bytes) >= 5 /\ SubSeq(bytes, 1, 5) = "%PDF-"

\* C17: pdfBufferToText is started only on a fetched payload that begins
\* with "%PDF-"; a payload fetched with success that does not begin with it
\* ends the script with the error "Not a PDF response", the URL and the
\* first bytes, which is not what a valid PDF without text ends with (no
\* error, an empty items list and the no-votes note).
C17_NoExtractionWithoutSignature ==
  /\ Started("pdfBufferToText") =>
        /\ tPdf # Null /\ tPdf.ok /\ HasPdfSignature(tPdf.firstBytes)
  /\ (tPdf # Null /\ tPdf.ok /\ ~HasPdfSignature(tPdf.firstBytes)) =>
        /\ ~Started("pdfBufferToText")
        /\ tOut.error = "Not a PDF response"
        /\ tOut.pdfUrl = tPdfUrl /\ tPdfUrl # Null
        /\ tOut.firstBytes = tPdf.firstBytes
  /\ (tPdf # Null /\ tPdf.ok /\ HasPdfSignature(tPdf.firstBytes)
        /\ tPdf.loads /\ tPdf.text = <<>>) =>
        /\ tOut.error = "" /\ tOut.items = <<>> /\ tOut.note = NoVotesNote

\* An HTML page came back for the PDF URL and was reported, not parsed.
C17_Witness ==
  /\ tPc = "exited" /\ tPdf # Null /\ tPdf.ok
  /\ tPdf.firstBytes = "<!DOCTYPE "
  /\ tOut.error = "Not a PDF response" /\ tOut.firstBytes = "<!DOCTYPE "
  /\ ~Started("pdfBufferToText")


\* What main hands to the parser for the fetched document.
TargetVotes ==
  extractVotesForMla(tPdf.text, wordsOf(getArg(tArgs, "--name")),
                     normLowerString(getArg(tArgs, "--riding")))
PdfWasRead ==
  tPdf # Null /\ tPdf.ok /\ HasPdfSignature(tPdf.firstBytes) /\ tPdf.loads

\* C18: when the index page has no VP PDF link, or the PDF that was read has
\* no division matching the target, the script prints a result without an
\* error, with an empty items list and a note; every printed result without
\* an error has a note exactly when its items list is empty; a text without
\* any division block gives an empty items list, not an error; the route
\* answers 200 only with the object the script printed.
C18_EmptyResultIsNotAnError ==
  /\ (tIndex # Null /\ tIndex.ok /\ VpSet(tIndex.html) = {} /\ tOut # Null) =>
        /\ tOut.error = "" /\ tOut.items = <<>> /\ tOut.note # ""
  /\ (PdfWasRead /\ TargetVotes = <<>>) =>
        /\ tOut.error = "" /\ tOut.items = <<>> /\ tOut.note # ""
  /\ (PdfWasRead /\ reDivisionAll(tPdf.text) = <<>>) =>
        /\ tOut.error = "" /\ tOut.items = <<>>
  /\ (tOut # Null /\ tOut.error = "") =>
        (tOut.note # "" <=> tOut.items = <<>>)
  /\ (tResponse # Null /\ tResponse.status = 200) => tResponse.body = tOut

\* The PDF has a division, but none with the target's name: the route passed
\* on the empty result with its note.
C18_Witness ==
  /\ tPc = "responded" /\ tResponse.status = 200
  /\ PdfWasRead /\ reDivisionAll(tPdf.text) # <<>> /\ TargetVotes = <<>>
  /\ tResponse.body.items = <<>> /\ tResponse.body.note = NoVotesNote
  /\ tResponse.body.error = ""


(***************************************************************************)
(* norm and normLower of the vote script (SpecNorm)                        *)
(***************************************************************************)
\* JavaScript values handed to norm.
JsUndefined  == [t |-> "undefined", s |-> "", v |-> 0]
JsNullValue  == [t |-> "null", s |-> "", v |-> 0]
JsString(x)  == [t |-> "string", s |-> x, v |-> 0]
JsDigit(n)   == [t |-> "number", s |-> "", v |-> n]
JsBoolean(b) == [t |-> "boolean", s |-> "", v |-> IF b THEN 1 ELSE 0]

\* String(x) for the values above (numbers 0..9).
toStringValue(x) ==
  CASE x.t = "string"    -> x.s
    [] x.t = "number"    -> CharAt(Digits, x.v + 1)
    [] x.t = "boolean"   -> (IF x.v = 1 THEN "true" ELSE "false")
    [] x.t = "undefined" -> "undefined"
    [] OTHER             -> "null"

\* x is falsy: undefined, null, "", 0, false
isFalsy(x) ==
  \/ x.t \in {"undefined", "null"}
  \/ x.t = "string" /\ x.s = ""
  \/ x.t \in {"number", "boolean"} /\ x.v = 0

\* Mutant of stringOrEmpty: String(s) without the || "".
stringOfAny(x) == toStringValue(x)

\* String(s || "")
stringOrEmpty(x) == IF isFalsy(x) THEN "" ELSE toStringValue(x)

norm(x)      == normString(stringOrEmpty(x))
normLower(x) == toLowerCase(norm(x))

RECURSIVE joinChars(_)
joinChars(cs) == IF cs = <<>> THEN "" ELSE Head(cs) \o joinChars(Tail(cs))
NormChars == {" ", "\t", "\n", "A", "b"}
NormInputs ==
  {JsUndefined, JsNullValue, JsDigit(0), JsDigit(7), JsBoolean(TRUE), JsBoolean(FALSE)} \cup
  {JsString(joinChars(cs)) : cs \in SeqsUpTo(NormChars, MaxNormLen)}

InitNorm ==
  /\ nPc = "start"
  /\ nInput \in NormInputs
  /\ nOut = "" /\ nLower = ""
  /\ NotNormIdle

ApplyNorm ==
  /\ nPc = "start"
  /\ nOut' = norm(nInput)
  /\ nLower' = normLower(nInput)
  /\ nPc' = "done"
  /\ UNCHANGED <<nInput, notNorm>>

NextNorm == ApplyNorm
SpecNorm == InitNorm /\ [][NextNorm]_vars

\* C19: for every input, undefined, null and "" included, norm and
\* normLower return a string; a missing input gives ""; applying norm to the
\* result of norm, or normLower to the result of normLower, changes nothing.
C19_NormIdempotent ==
  (nPc = "done") =>
     /\ norm(JsString(nOut)) = nOut
     /\ normLower(JsString(nLower)) = nLower
     /\ (nInput \in {JsUndefined, JsNullValue, JsString("")}) =>
           (nOut = "" /\ nLower = "")
     /\ Len(nOut) >= 0 /\ Len(nLower) = Len(nOut)

\* A string with runs of mixed whitespace inside and around was normalised.
C19_Witness ==
  /\ nPc = "done"
  /\ nInput = JsString("\tA \nb")
  /\ nOut = "A b" /\ nLower = "a b"


(***************************************************************************)
(* Lookup route with hardcoded records: what GET does to the buckets       *)
(* after the upstream records arrived (SpecOverride)                       *)
(***************************************************************************)
PROVINCE_CODE_ALIASES ==
  ("AB" :> "AB") @@ ("ALBERTA" :> "AB") @@ ("BC" :> "BC") @@
  ("BRITISH COLUMBIA" :> "BC") @@ ("MB" :> "MB") @@ ("MANITOBA" :> "MB") @@
  ("NB" :> "NB") @@ ("NEW BRUNSWICK" :> "NB") @@ ("NL" :> "NL") @@
  ("NEWFOUNDLAND AND LABRADOR" :> "NL") @@ ("NS" :> "NS") @@
  ("NOVA SCOTIA" :> "NS") @@ ("NT" :> "NT") @@
  ("NORTHWEST TERRITORIES" :> "NT") @@ ("NU" :> "NU") @@ ("NUNAVUT" :> "NU") @@
  ("ON" :> "ON") @@ ("ONTARIO" :> "ON") @@ ("PE" :> "PE") @@
  ("PRINCE EDWARD ISLAND" :> "PE") @@ ("QC" :> "QC") @@ ("QUEBEC" :> "QC") @@
  ("SK" :> "SK") @@ ("SASKATCHEWAN" :> "SK") @@ ("YT" :> "YT") @@ ("YUKON" :> "YT")

PROVINCE_NAME_BY_CODE ==
  ("AB" :> "Alberta") @@ ("BC" :> "British Columbia") @@ ("MB" :> "Manitoba") @@
  ("NB" :> "New Brunswick") @@ ("NL" :> "Newfoundland and Labrador") @@
  ("NS" :> "Nova Scotia") @@ ("NT" :> "Northwest Territories") @@
  ("NU" :> "Nunavut") @@ ("ON" :> "Ontario") @@ ("PE" :> "Prince Edward Island") @@
  ("QC" :> "Quebec") @@ ("SK" :> "Saskatchewan") @@ ("YT" :> "Yukon")

\* normalizeProvinceCode: "" stands for null.
normalizeProvinceCode(input) ==
  LET key == toUpperCase(trim(collapseSpaces(input)))
  IN IF key \in DOMAIN PROVINCE_CODE_ALIASES THEN PROVINCE_CODE_ALIASES[key] ELSE ""

HARDCODED_PREMIER_BC == Rep("David Eby", "Premier", "British Columbia")
HARDCODED_PREMIER_SK == Rep("Scott Moe", "Premier", "Saskatchewan")
HARDCODED_SANTA      == Rep("Santa Claus", "Santa", "North Pole")

\* if (code === c) { exists = provincial.some(same lowercased name);
\*                   if (!exists) provincial.push(record) }
pushUnlessNamed(bs, wanted, record) ==
  IF wanted /\ ~(\E r \in Range(bs.provincial) : sameName(r, record))
  THEN [bs EXCEPT !.provincial = Append(@, record)]
  ELSE bs

injectHardcodedPremierIfNeeded(bs, provinceCode) ==
  LET code == normalizeProvinceCode(provinceCode)
  IN pushUnlessNamed(pushUnlessNamed(bs, code = "BC", HARDCODED_PREMIER_BC),
                     code = "SK", HARDCODED_PREMIER_SK)

\* if (p === "H0H0H0") buckets.municipal.push(HARDCODED_SANTA)
isReservedPostal(p) == toUpperCase(removeSpaces(p)) = "H0H0H0"
pushReserved(bs, p) ==
  IF isReservedPostal(p)
  THEN [bs EXCEPT !.municipal = Append(@, HARDCODED_SANTA)]
  ELSE bs

\* bucket of this variant: "legislative assembly" in the office is provincial too.
isAssemblyMember(r) == isProvincial(r) \/ includes(office(r), "legislative assembly")
bucketWithAssembly(rs) ==
  [municipal  |-> SelectSeq(rs, isMunicipal),
   provincial |-> SelectSeq(rs, isAssemblyMember),
   federal    |-> SelectSeq(rs, isFederal)]

\* PROVINCE_NAME_BY_CODE[normalizeProvinceCode(provinceCode) ?? ""] ?? (provinceCode ?? "")
provinceNameOf(provinceCode) ==
  IF normalizeProvinceCode(provinceCode) \in DOMAIN PROVINCE_NAME_BY_CODE
  THEN PROVINCE_NAME_BY_CODE[normalizeProvinceCode(provinceCode)]
  ELSE provinceCode

\* if (premier && !provincial.some(same name)) provincial.push({...premier, ...})
injectFetchedPremier(bs, premier, provinceCode) ==
  IF premier = Null THEN bs
  ELSE IF \E r \in Range(bs.provincial) : sameName(r, premier) THEN bs
  ELSE [bs EXCEPT !.provincial =
          Append(@, [premier EXCEPT !.elected_office = "Premier",
                                    !.district_name = provinceNameOf(provinceCode)])]

\* ---- what the request and the upstream services can send
OverridePostals == {"H0H0H0", "V6B1A1", "S4P3Y2", "T2X1V4"}
DataProvinces   == {"BC", "British Columbia", "sk", "AB", ""}
OverrideReps ==
  { Rep("santa claus", "Mayor", "North Pole"),
    Rep("david eby", "Member of the Legislative Assembly", "Vancouver-Point Grey"),
    Rep("Scott Moe", "MLA", "Rosthern-Shellbrook"),
    Rep("Ann Lee", "MP", "D1") }
\* fetchPremier resolves to null without a province code, else to null or
\* to the member of that legislature whose role says premier
FetchedPremiers(provinceCode) ==
  LET code == normalizeProvinceCode(provinceCode)
  IN {Null} \cup
     (CASE code = "BC" -> {Rep("DAVID EBY", "MLA", "Vancouver-Point Grey"),
                           Rep("Niki Sharma", "MLA", "Vancouver-Hastings")}
        [] code = "SK" -> {Rep("Scott Moe", "MLA", "Rosthern-Shellbrook")}
        [] code = "AB" -> {Rep("Dan Fox", "MLA", "D3")}
        [] OTHER       -> {})
FetchedPrimeMinisters == {Null, Rep("Cy Orr", "MP", "D4"), Rep("ANN LEE", "MP", "D1")}

LogEntry(step, override, clash) == [step |-> step, override |-> override, clash |-> clash]

\* The state when the upstream records are in hand: after res.json() on
\* the direct path, after a non-empty fetchRepsByPoint on the fallback path.
InitOverride ==
  /\ oPc = "start"
  /\ oPath \in {"direct", "fallback"}
  /\ oPostal \in OverridePostals
  /\ oReps \in SeqsUpTo(OverrideReps, MaxObjects)
  /\ (oPath = "fallback") => (oReps # <<>>)
  /\ oProvince \in (IF oPath = "direct" THEN DataProvinces
                    ELSE {provinceFromPostal(oPostal)})
  /\ oBuckets = NoBuckets /\ oLog = <<>> /\ oResponse = Null
  /\ NotOverIdle

\* dedupeByName, bucket, the H0H0H0 push and, on the direct path,
\* injectHardcodedPremierIfNeeded, up to the await of Promise.all
ClassifyUpToBatch ==
  /\ oPc = "start"
  /\ LET classified == bucketWithAssembly(dedupeByName(oReps))
         reserved   == pushReserved(classified, oPostal)
         hardcoded  == IF oPath = "direct"
                       THEN injectHardcodedPremierIfNeeded(reserved, oProvince)
                       ELSE reserved
     IN /\ oBuckets' = hardcoded
        /\ oLog' = <<LogEntry("classified", FALSE, FALSE)>>
             \o (IF reserved # classified
                 THEN <<LogEntry("reserved_postal", TRUE,
                          \E r \in Range(classified.municipal) : sameName(r, HARDCODED_SANTA))>>
                 ELSE <<>>)
             \o (IF hardcoded # reserved
                 THEN <<LogEntry("hardcoded_premier", TRUE, FALSE)>>
                 ELSE <<>>)
  /\ oPc' = "batch"
  /\ UNCHANGED <<oPath, oPostal, oProvince, oReps, oResponse, notOver>>

\* Promise.all resolves: premier and prime minister injection, on the
\* fallback path injectHardcodedPremierIfNeeded, then the response
OverrideBatchSettles ==
  /\ oPc = "batch"
  /\ \E premier \in FetchedPremiers(oProvince), primeMinister \in FetchedPrimeMinisters :
       LET injected  == injectPrimeMinister(
                          injectFetchedPremier(oBuckets, premier, oProvince), primeMinister)
           hardcoded == IF oPath = "fallback"
                        THEN injectHardcodedPremierIfNeeded(injected, oProvince)
                        ELSE injected
       IN /\ oBuckets' = hardcoded
          /\ oLog' = oLog \o <<LogEntry("injected", FALSE, FALSE)>>
               \o (IF hardcoded # injected
                   THEN <<LogEntry("hardcoded_premier", TRUE, FALSE)>>
                   ELSE <<>>)
          /\ oResponse' = [status |-> 200, reps |-> hardcoded]
  /\ oPc' = "done"
  /\ UNCHANGED <<oPath, oPostal, oProvince, oReps, notOver>>

\* a fetch inside fetchPremier or fetchPrimeMinister rejects: GET rejects
OverrideBatchRejects ==
  /\ oPc = "batch"
  /\ oPc' = "threw"
  /\ UNCHANGED <<oPath, oPostal, oProvince, oReps, oBuckets, oLog, oResponse, notOver>>

NextOverride == ClassifyUpToBatch \/ OverrideBatchSettles \/ OverrideBatchRejects
SpecOverride == InitOverride /\ [][NextOverride]_vars

\* C20: on the direct and the fallback path alike, a hardcoded record (BC or
\* SK premier, the H0H0H0 record) is put into a bucket only after
\* classification and premier / prime minister injection are over, and only
\* when the bucket holds no record of the same case-insensitive name.
C20_OverridesLastAndNeverOverName ==
  \A i \in 1..Len(oLog) :
     oLog[i].override =>
        /\ \E j \in 1..(i - 1) : oLog[j].step = "injected"
        /\ ~oLog[i].clash


(***************************************************************************)
(* Vote parser: the passed heuristic of one division (SpecPassed)          *)
(***************************************************************************)
WindowRadius == 600

\* String.prototype.toLowerCase on a long string, by halves
RECURSIVE toLowerCaseLong(_)
toLowerCaseLong(s) ==
  IF Len(s) <= 8 THEN toLowerCase(s)
  ELSE LET h == Len(s) \div 2
       IN toLowerCaseLong(SubSeq(s, 1, h)) \o toLowerCaseLong(SubSeq(s, h + 1, Len(s)))

\* text.slice(Math.max(0, startIndex - 600), Math.min(text.length, startIndex + 600))
\*   .toLowerCase(), with start = startIndex + 1
aroundOf(text, start) ==
  LET from == IF start - WindowRadius < 1 THEN 1 ELSE start - WindowRadius
      to   == IF start + WindowRadius - 1 > Len(text) THEN Len(text)
              ELSE start + WindowRadius - 1
  IN toLowerCaseLong(SubSeq(text, from, to))

\* let passed = null; if (agreed or carried) passed = true;
\* if (defeated or negatived or not agreed) passed = false;
passedOf(around) ==
  IF includes(around, "motion was defeated") \/ includes(around, "negatived")
     \/ includes(around, "not agreed") THEN "false"
  ELSE IF includes(around, "motion was agreed") \/ includes(around, "carried") THEN "true"
  ELSE "null"

\* ---- inputs: a sentence, filler, one division, filler, a sentence
RECURSIVE Filler(_)
Filler(n) ==
  IF n = 0 THEN ""
  ELSE IF n % 2 = 0 THEN LET h == Filler(n \div 2) IN h \o h
  ELSE "x" \o Filler(n - 1)
CueSentences ==
  {"", "The motion was agreed to.", "Agreed to.", "CARRIED", "The motion was defeated.",
   "The amendment was defeated.", "negatived", "The motion was not agreed to."}
CueGaps == {0, WindowRadius - 10, WindowRadius}
OneDivision == "For the motion: Smith Against the motion: Jones"
CueText(before, gapBefore, gapAfter, after) ==
  before \o Filler(gapBefore) \o OneDivision \o Filler(gapAfter) \o after

InitPassed ==
  /\ wPc = "start"
  /\ \E before \in CueSentences, after \in CueSentences,
        gapBefore \in CueGaps, gapAfter \in CueGaps :
       /\ wText = CueText(before, gapBefore, gapAfter, after)
       /\ wStart = Len(before) + gapBefore + 1
  /\ wPassed = "null"
  /\ NotCueIdle

DecidePassed ==
  /\ wPc = "start"
  /\ wPassed' = passedOf(aroundOf(wText, wStart))
  /\ wPc' = "done"
  /\ UNCHANGED <<wText, wStart, notCue>>

NextPassed == DecidePassed
SpecPassed == InitPassed /\ [][NextPassed]_vars

WindowHas(cue) == includes(aroundOf(wText, wStart), cue)
SaysFailed == WindowHas("defeated") \/ WindowHas("negatived") \/ WindowHas("not agreed")
SaysPassed == WindowHas("agreed") \/ WindowHas("carried")

\* C21: passed is false when the 600 characters before and after the start of
\* the division contain "defeated", "negatived" or "not agreed", true when
\* they contain "agreed" or "carried", and null when they contain none of them.
C21_PassedFollowsCues ==
  (wPc = "done") =>
     /\ SaysFailed => wPassed = "false"
     /\ (SaysPassed /\ ~SaysFailed) => wPassed = "true"
     /\ (~SaysPassed /\ ~SaysFailed) => wPassed = "null"


(***************************************************************************)
(* The premier and prime minister matchers on one roster (SpecRoles)       *)
(***************************************************************************)
DeclaredRoles ==
  {"Premier of Alberta", " PREMIER ", "Deputy Premier", "Premier's Chief of Staff",
   "Parliamentary Secretary to the Premier", "Prime Minister of Canada",
   "Deputy Prime Minister", "Prime Minister's Chief of Staff",
   "Parliamentary Secretary to the Prime Minister"}
RoleLists ==
  {<<>>} \cup {<<r>> : r \in DeclaredRoles} \cup
  {<<"Deputy Premier", "Premier">>, <<"Deputy Prime Minister", "Prime Minister's Chief of Staff">>}
RoleMembers == {Member("Kim Ito", "MLA", "D5", rs) : rs \in RoleLists}

InitRoles ==
  /\ kPc = "start"
  /\ kRoster \in SeqsUpTo(RoleMembers, MaxRoster)
  /\ kPremier = Null /\ kPrimeMinister = Null
  /\ NotRoleIdle

\* fetchPremier on the roster, the response being ok
PremierMatched ==
  /\ kPc = "start"
  /\ kPremier' = fetchPremier([ok |-> TRUE, objects |-> kRoster])
  /\ kPc' = "premier"
  /\ UNCHANGED <<kRoster, kPrimeMinister, notRole>>

\* fetchPrimeMinister on the roster, the response being ok
PrimeMinisterMatched ==
  /\ kPc = "premier"
  /\ kPrimeMinister' = fetchPrimeMinister([ok |-> TRUE, objects |-> kRoster])
  /\ kPc' = "done"
  /\ UNCHANGED <<kRoster, kPremier, notRole>>

NextRoles == PremierMatched \/ PrimeMinisterMatched
SpecRoles == InitRoles /\ [][NextRoles]_vars

\* A role of the staff kinds the claim names.
StaffRole(r) ==
  \/ includes(r, "parliamentary secretary")
  \/ includes(r, "chief of staff")
  \/ startsWith(r, "deputy premier")
  \/ startsWith(r, "deputy prime minister")
OnlyStaffRoles(m) ==
  /\ m.roles # <<>>
  /\ \A i \in 1..Len(m.roles) : StaffRole(normalize(m.roles[i]))

\* C22: neither matcher selects a member all of whose declared roles are
\* staff roles: they contain "parliamentary secretary" or "chief of staff",
\* or start with "deputy premier" / "deputy prime minister".
C22_StaffNeverSelected ==
  /\ (kPremier # Null) => ~OnlyStaffRoles(kPremier)
  /\ (kPrimeMinister # Null) => ~OnlyStaffRoles(kPrimeMinister)


(***************************************************************************)
(* Geocode fallback: one answer of the geocoder (SpecGeocode)              *)
(***************************************************************************)
\* More JSON values of a coordinate array: "" and a missing entry.
JsonEmpty   == [t |-> "empty", numeric |-> TRUE, v |-> 0]
JsonMissing == [t |-> "undefined", numeric |-> FALSE, v |-> 0]

\* A property of the first candidate: absent, or an array.
Absent      == [present |-> FALSE, coords |-> <<>>]
Present(cs) == [present |-> TRUE, coords |-> cs]

\* first?.geometry?.coordinates || first?.location?.coordinates ||
\* first?.location || null: an array, even an empty one, is truthy
probeCoords(first) ==
  IF first.geometry.present THEN first.geometry.coords
  ELSE IF first.locationCoordinates.present THEN first.locationCoordinates.coords
  ELSE IF first.location.present THEN first.location.coords
  ELSE <<>>

CoordinateValues ==
  {JsonNumber(-114), JsonNumber(51), JsonNumeral(51), JsonWord, JsonNull,
   JsonEmpty, JsonMissing}
CoordinateArrays == SeqsUpTo(CoordinateValues, 2)
GoodCoordinates  == <<JsonNumber(-114), JsonNumber(51)>>
GeocoderAnswers ==
  {[ok |-> FALSE, status |-> 500,
    first |-> [geometry |-> Absent, locationCoordinates |-> Absent, location |-> Absent]]} \cup
  {[ok |-> TRUE, status |-> 200,
    first |-> [geometry |-> a, locationCoordinates |-> b, location |-> c]] :
     a \in {Absent} \cup {Present(cs) : cs \in CoordinateArrays},
     b \in {Absent, Present(GoodCoordinates)},
     c \in {Absent, Present(GoodCoordinates)}}

InitGeocode ==
  /\ gPc = "start"
  /\ gAnswer \in GeocoderAnswers
  /\ gGeo = Null /\ gPoint = FALSE
  /\ NotGeoIdle

\* geocodePostalCanada returns
GeocoderAnswered ==
  /\ gPc = "start"
  /\ gGeo' = geocodePostalCanada([ok |-> gAnswer.ok, status |-> gAnswer.status,
                                  coords |-> probeCoords(gAnswer.first)])
  /\ gPc' = "geocoded"
  /\ UNCHANGED <<gAnswer, gPoint, notGeo>>

\* if (!geo.ok) return 404; reps = await fetchRepsByPoint(geo.lat, geo.lon)
FallbackContinues ==
  /\ gPc = "geocoded"
  /\ IF ~gGeo.ok
     THEN gPc' = "notFound" /\ UNCHANGED gPoint
     ELSE gPc' = "awaitPoint" /\ gPoint' = TRUE
  /\ UNCHANGED <<gAnswer, gGeo, notGeo>>

NextGeocode == GeocoderAnswered \/ FallbackContinues
SpecGeocode == InitGeocode /\ [][NextGeocode]_vars

\* A coordinate entry that is there and reads as a finite number.
FiniteEntry(x) == x.t = "number" \/ (x.t = "string" /\ x.numeric)
UsableCoordinates(cs) == Len(cs) >= 2 /\ FiniteEntry(cs[1]) /\ FiniteEntry(cs[2])

\* C23: geocodePostalCanada reports success only when the probed coordinates
\* of the first candidate hold a finite longitude at index 0 and a finite
\* latitude at index 1; for null, missing or empty entries it reports a
\* failure and no point lookup is issued.
C23_SuccessOnlyWithFiniteCoordinates ==
  (gPc # "start" /\ gPc # "idle") =>
     /\ gGeo.ok => UsableCoordinates(probeCoords(gAnswer.first))
     /\ gPoint => UsableCoordinates(probeCoords(gAnswer.first))


(***************************************************************************)
(* Claims about the returned vote records (SpecVoteRequest)                *)
(***************************************************************************)
InDocumentOrder(items) ==
  /\ \A i \in 1..Len(items) : tPdf.text[items[i].at] = ForMarker
  /\ \A i, j \in 1..Len(items) : (i < j) => (items[i].at < items[j].at)

\* C24: the parser's records are in the order of their division blocks with
\* no cap on their number; the vote query keeps the first 12 of them at
\* most, in that order, each with official_url equal to the one PDF URL the
\* locator chose for the request.
C24_FirstTwelveInOrderWithPdfUrl ==
  (PdfWasRead /\ tPc \in {"exited", "responded"}) =>
     LET parsed == TargetVotes
     IN /\ InDocumentOrder(parsed)
        /\ Len(tOut.items) <= MaxItems
        /\ Len(tOut.items) <= Len(parsed)
        /\ (Len(parsed) <= MaxItems) => (Len(tOut.items) = Len(parsed))
        /\ (Len(parsed) > MaxItems) => (Len(tOut.items) = MaxItems)
        /\ \A i \in 1..Len(tOut.items) :
             /\ tOut.items[i].at = parsed[i].at
             /\ tOut.items[i].vote = parsed[i].vote
             /\ tOut.items[i].official_url = tPdfUrl
        /\ tPdfUrl # Null
        /\ tPdfUrl \in {toAbs(tIndex.html[i]) : i \in 1..Len(tIndex.html)}

\* The parser found 13 records, the query returned the first 12.
C24_Witness ==
  /\ tPc = "responded" /\ tResponse.status = 200
  /\ PdfWasRead
  /\ Len(TargetVotes) = MaxItems + 1
  /\ Len(tOut.items) = MaxItems
  /\ tOut.items[1].at = 1
  /\ tOut.items[1].official_url = tPdfUrl


(***************************************************************************)
(* Claims about the order dedupeByName keeps (SpecReconcile)               *)
(***************************************************************************)
\* The positions of the input that hold the first record of their key.
FirstSeen(rs) ==
  {i \in 1..Len(rs) : \A j \in 1..(i - 1) : repKey(rs[j]) # repKey(rs[i])}
\* The k-th least member of a set of positions.
NthOf(S, k) == CHOOSE i \in S : Cardinality({j \in S : j <= i}) = k

\* C25: the output of dedupeByName is the input's records at the positions
\* where a key is first seen, in input order; so with the input read as a
\* centroid list followed by a concordance list, a key that is in both is
\* kept as its centroid record; dedupeByName of the output is the output.
C25_FirstSeenOrderKept ==
  rPc \in {"deduped", "done"} =>
    /\ Len(rCombined) = Cardinality(FirstSeen(rInput))
    /\ \A k \in 1..Len(rCombined) : rCombined[k] = rInput[NthOf(FirstSeen(rInput), k)]
    /\ \A n \in 0..Len(rInput) : \A i \in 1..n : \A j \in (n + 1)..Len(rInput) :
         (repKey(rInput[i]) = repKey(rInput[j]) /\ rInput[i] # rInput[j]) =>
            rInput[j] \notin Range(rCombined) \/ (\E h \in 1..n : rInput[h] = rInput[j])
    /\ dedupeByName(rCombined) = rCombined

\* The same key twice with different records, another key in between: the
\* first record and the other key came out, in that order.
C25_Witness ==
  /\ rPc = "deduped"
  /\ Len(rInput) = 3
  /\ repKey(rInput[1]) = repKey(rInput[3]) /\ rInput[1] # rInput[3]
  /\ repKey(rInput[2]) # repKey(rInput[1])
  /\ rCombined = <<rInput[1], rInput[2]>>


(***************************************************************************)
(* Claims about the name pattern with a riding (SpecVotes)                 *)
(***************************************************************************)
\* The surname stands in the segment with no parenthetical after it.
BareSurname(seg, last) ==
  \E i \in 1..Len(seg) : seg[i] = last /\ (i = Len(seg) \/ seg[i + 1] # "(")
Mentions(seg, last) == \E i \in 1..Len(seg) : seg[i] = last

\* C26: with a riding supplied, a member listed in one segment of a division
\* by bare surname, with no parenthetical, and not named in the other
\* segment, is matched and gets a Yes or No record.
C26_BareSurnameMatchedWithRiding ==
  (vPc = "done" /\ vRiding # "" /\ lastNameOf(vName) # "") =>
    \A m \in BlockSet :
      /\ (BareSurname(forBlock(vText, m), lastNameOf(vName))
          /\ ~Mentions(againstBlock(vText, m), lastNameOf(vName)))
         => \E it \in ItemSet : it.at = m.index /\ it.vote = "Yes"
      /\ (BareSurname(againstBlock(vText, m), lastNameOf(vName))
          /\ ~Mentions(forBlock(vText, m), lastNameOf(vName)))
         => \E it \in ItemSet : it.at = m.index /\ it.vote = "No"


(***************************************************************************)
(* Claims about the premier records of a response (SpecOverride)           *)
(***************************************************************************)
PremierRecords(list) == {i \in 1..Len(list) : list[i].elected_office = "Premier"}

\* C27: in every successful lookup response, on either path, the provincial
\* bucket holds at most one record whose elected_office is "Premier": never
\* both a hardcoded premier and one discovered upstream.
C27_AtMostOnePremier ==
  (oPc = "done" /\ oResponse.status = 200) =>
     Cardinality(PremierRecords(oResponse.reps.provincial)) <= 1


(***************************************************************************)
(* Claims about error bodies and their status (SpecEntryPoints)            *)
(***************************************************************************)
Success(status) == status >= 200 /\ status <= 299

\* C28: a response of the vote route or of the lookup route whose body has
\* an error field has a non-success status; a failure the vote script
\* reports (index fetch failed, PDF fetch failed, not a PDF) is not answered
\* with status 200.
C28_ErrorBodyIsNotSuccess ==
  /\ (tResponse # Null /\ tResponse.body.error # "") => ~Success(tResponse.status)
  /\ (response # Null /\ response.error # "") => ~Success(response.status)


(***************************************************************************)
(* Claims about the arguments handed to the script (SpecVoteRequest)       *)
(***************************************************************************)
\* C29: for a vote request with a non-blank name, the name and the riding
\* the spawned script reads through getArg are the request's own (no riding
\* when the request's is blank), also when a value is itself a flag string
\* such as "--riding"; the script's debug is on only if the request asked.
C29_ScriptReadsRequestValues ==
  (tEntry = "route" /\ Started("spawn")) =>
     /\ getArg(tArgs, "--name") = tName
     /\ getArg(tArgs, "--riding") = (IF trim(tRiding) = "" THEN "" ELSE tRiding)
     /\ (getArg(tArgs, "--debug") = "1") => tDebug


(***************************************************************************)
(* The Issues panel: load(nextTab) and its awaited fetch (SpecIssues)      *)
(***************************************************************************)
IssueTabs == {"city", "provincial", "federal"}
NoneAwaited == [k \in IssueTabs |-> 0]

\* load(nextTab) up to its await: setTab, setLoading(true), setError(null),
\* then the fetch of /api/issues?source=nextTab
loadStarts(k) ==
  /\ iTab' = k
  /\ iLoading' = TRUE
  /\ iError' = FALSE
  /\ iPending' = [iPending EXCEPT ![k] = @ + 1]
  /\ UNCHANGED iItems

\* The state after the first render: useState(() => { load("city"); })
InitIssues ==
  /\ iTab = "city"
  /\ iLoading = TRUE
  /\ iError = FALSE
  /\ iItems = ""
  /\ iPending = [NoneAwaited EXCEPT !["city"] = 1]
  /\ iClicks = 0
  /\ NotIssuesIdle

\* onClick={() => load(k)}
ClickTab ==
  /\ iClicks < MaxClicks
  /\ \E k \in IssueTabs : loadStarts(k)
  /\ iClicks' = iClicks + 1
  /\ UNCHANGED notIssues

\* A response with res.ok arrives for source k: setItems(json.items || []),
\* then finally setLoading(false)
IssuesArrive ==
  /\ \E k \in IssueTabs :
       /\ iPending[k] > 0
       /\ iPending' = [iPending EXCEPT ![k] = @ - 1]
       /\ iItems' = k
  /\ iLoading' = FALSE
  /\ UNCHANGED <<iTab, iError, iClicks, notIssues>>

\* The fetch for source k rejects or answers without res.ok: setError,
\* setItems([]), then finally setLoading(false)
IssuesFail ==
  /\ \E k \in IssueTabs :
       /\ iPending[k] > 0
       /\ iPending' = [iPending EXCEPT ![k] = @ - 1]
  /\ iError' = TRUE
  /\ iItems' = ""
  /\ iLoading' = FALSE
  /\ UNCHANGED <<iTab, iClicks, notIssues>>

NextIssues == ClickTab \/ IssuesArrive \/ IssuesFail
SpecIssues == InitIssues /\ [][NextIssues]_vars

Outstanding == \E k \in IssueTabs : iPending[k] > 0

\* C30: for any interleaving of tab clicks and arrivals of their responses,
\* once no request is outstanding the items shown are those returned for the
\* selected tab, and the loading indicator is off only when no request is
\* outstanding.
C30_ItemsOfSelectedTab ==
  /\ (~Outstanding /\ ~iError) => iItems = iTab
  /\ ~iLoading => ~Outstanding

=============================================================================
